---- MODULE Spec2Model ----
(***************************************************************************)
(* A model of the BLISS detection pipeline's decision logic:               *)
(*   - event_search over a cadence (drift_search/event_search.cpp),        *)
(*   - filter_hits (drift_search/filter_hits.cpp),                         *)
(*   - compute_drifts (drift_search/integrate_drifts.cpp).                 *)
(* The three translation units are concatenated in                         *)
(* src/bliss/drift_search/filter_hits.cpp; line numbers refer to it.       *)
(*                                                                         *)
(* Numbers.  The sources compute in float/double.  The model computes in   *)
(* integers: times in seconds, frequencies in Hz (the field start_freq_MHz *)
(* holds MHz * 1e6), drift rates in Hz/s, and a distance in units of       *)
(* 1/DistUnits.  The inputs are chosen so that every value the searches    *)
(* compare is an exact multiple of the unit.                               *)
(***************************************************************************)
EXTENDS Integers, Sequences, FiniteSets, TLC

VARIABLES
    \* ---- event_search -------------------------------------------------
    cadence,            \* the argument: <<target 1 (ON), target 2, ...>>
    on_scan_hits,       \* std::vector<std::list<hit>>, the available hits
    detected_events,    \* std::vector<event>
    on_scan_index,      \* outer loop variable (1-based)
    seed_pos,           \* position of the range-for iterator in the seed scan
    candidate_event,    \* the event evaluate_candidate_event is building
    matching_scan_index,\* loop variable of evaluate_candidate_event
    times_event_in_off, \* result of the last count_event_in_off_scans
    distance_cache,     \* hit_distance::distance_cache
    pc,                 \* "seed" | "match" | "done" ("idle": no search)
    \* ---- filter_hits --------------------------------------------------
    fh_options,         \* filter_options
    fh_input,           \* the list filter_hits was first called with
    fh_arg,             \* the argument of the last call
    fh_hits,            \* the list the last call returned
    fh_calls,           \* number of calls made
    \* ---- compute_drifts -----------------------------------------------
    cd_args,            \* [time_steps, foff_Hz, tsamp, options]
    index,              \* the loop variable
    drift_rate_info,    \* the vector being built
    cd_pc,              \* "call" | "loop" | "done" | "throw" ("idle": no call)
    \* ---- hit_search ---------------------------------------------------
    hs_channel,         \* the dedrifted coarse channel: metadata, noise, plane
    protohits,          \* what protohit_search returned
    hs_hits,            \* the list being built
    hs_next,            \* position of the loop in protohits
    hs_pc,              \* "loop" | "done" ("idle": no call)
    \* ---- coarse_channel: data, mask, device ---------------------------
    cc,                 \* the coarse_channel object
    cc_made,            \* the constructor that made it: "none" | "meta" | "lazy" | "direct"
    loader_calls,       \* invocations of the data and the mask loader
    accesses,           \* calls of data() and of mask() made
    cc_ret,             \* the last call and what it returned or threw
    cc_calls,           \* member calls made
    \* ---- coarse_channel: the hits and drift plane caches --------------
    channels,           \* the coarse_channel objects: an original and its copies
    heap,               \* the std::variant objects the shared_ptrs point to
    generator_calls,    \* per variant object, invocations of its generator
    cache_ret,          \* the last call and what it returned or threw
    cache_calls,        \* member calls and copies made
    \* ---- coarse_channel: concurrent hits() on one shared variant ------
    shared_variant,     \* [holds, writer, damaged]: the variant *_hits
    th_pc,              \* per thread, its position in hits()
    th_raced,           \* per thread, whether an access of its own raced a write
    th_ret,             \* per thread, what hits() returned
    \* ---- scan over a data source -------------------------------------
    sc_source,          \* the IScanDataSource: shape, header nchans, reads made
    sc_scan,            \* the scan object's members
    sc_made,            \* "none" before the constructor, "made" after it
    sc_first_read,      \* history: pipeline length when a channel was cached
    sc_ret,             \* what the last member call did
    sc_calls,           \* member calls made
    \* ---- observation_target and cadence: scan consistency -----
    vc_cadence,         \* the cadence: a sequence of targets, each a sequence of scans
    vc_ret,             \* the last call and what it returned or threw
    \* ---- distance_func on one pair of hits ---------------------------
    dm_a,               \* the first hit
    dm_b,               \* the second hit
    dm_ret,             \* the distance returned and its drift term
    \* ---- infer_number_coarse_channels
    in_input,           \* the arguments of the call
    in_ret,             \* what the call did
    \* ---- flag_filter_rolloff
    fr_mask,            \* the mask of the channel given
    fr_width,           \* rolloff_width, in percent
    fr_ret              \* what the call returned

esVars == <<cadence, on_scan_hits, detected_events, on_scan_index, seed_pos,
            candidate_event, matching_scan_index, times_event_in_off,
            distance_cache, pc>>

fhVars == <<fh_options, fh_input, fh_arg, fh_hits, fh_calls>>

cdVars == <<cd_args, index, drift_rate_info, cd_pc>>

hsVars == <<hs_channel, protohits, hs_hits, hs_next, hs_pc>>

ccVars == <<cc, cc_made, loader_calls, accesses, cc_ret, cc_calls>>

cacheVars == <<channels, heap, generator_calls, cache_ret, cache_calls>>

thVars == <<shared_variant, th_pc, th_raced, th_ret>>

scVars == <<sc_source, sc_scan, sc_made, sc_first_read, sc_ret, sc_calls>>

vcVars == <<vc_cadence, vc_ret>>

dmVars == <<dm_a, dm_b, dm_ret>>

inVars == <<in_input, in_ret>>

frVars == <<fr_mask, fr_width, fr_ret>>

vars == <<esVars, fhVars, cdVars, hsVars, ccVars, cacheVars, thVars, scVars, vcVars, dmVars, inVars, frVars>>

\* what the steps of each operation leave alone
notEs == <<fhVars, cdVars, hsVars, ccVars, cacheVars, thVars, scVars, vcVars, dmVars, inVars, frVars>>
notFh == <<esVars, cdVars, hsVars, ccVars, cacheVars, thVars, scVars, vcVars, dmVars, inVars, frVars>>
notCd == <<esVars, fhVars, hsVars, ccVars, cacheVars, thVars, scVars, vcVars, dmVars, inVars, frVars>>
notHs == <<esVars, fhVars, cdVars, ccVars, cacheVars, thVars, scVars, vcVars, dmVars, inVars, frVars>>
notCc == <<esVars, fhVars, cdVars, hsVars, cacheVars, thVars, scVars, vcVars, dmVars, inVars, frVars>>
notCache == <<esVars, fhVars, cdVars, hsVars, ccVars, thVars, scVars, vcVars, dmVars, inVars, frVars>>
notTh == <<esVars, fhVars, cdVars, hsVars, ccVars, cacheVars, scVars, vcVars, dmVars, inVars, frVars>>
notSc == <<esVars, fhVars, cdVars, hsVars, ccVars, cacheVars, thVars, vcVars, dmVars, inVars, frVars>>
notVc == <<esVars, fhVars, cdVars, hsVars, ccVars, cacheVars, thVars, scVars, dmVars, inVars, frVars>>
notDm == <<esVars, fhVars, cdVars, hsVars, ccVars, cacheVars, thVars, scVars, vcVars, inVars, frVars>>
notIn == <<esVars, fhVars, cdVars, hsVars, ccVars, cacheVars, thVars, scVars, vcVars, dmVars, frVars>>
notFr == <<esVars, fhVars, cdVars, hsVars, ccVars, cacheVars, thVars, scVars, vcVars, dmVars, inVars>>

-----------------------------------------------------------------------------
(* Arithmetic helpers *)

Abs(x) == IF x < 0 THEN -x ELSE x
Min(x, y) == IF x < y THEN x ELSE y
Max(x, y) == IF x < y THEN y ELSE x

RECURSIVE SeqSum(_)
SeqSum(s) == IF s = <<>> THEN 0 ELSE Head(s) + SeqSum(Tail(s))

\* a list::erase that leaves the list as it was
RemoveAt_kept(s, i) == s

\* s without its element at position i (std::list::erase)
RemoveAt(s, i) == [j \in 1..(Len(s) - 1) |-> IF j < i THEN s[j] ELSE s[j + 1]]

-----------------------------------------------------------------------------
(* core/hit.hpp *)

\* rfi = std::map<flag_values, uint8_t>: a function on the keys present
FlagKeys == {"low_spectral_kurtosis", "high_spectral_kurtosis", "sigma_clip"}
EmptyRfi == [k \in {} |-> 0]

\* struct hit
MkHit(fi, f, t, dur, ri, dr, pw, ic, rfi_counts) ==
    [start_freq_index      |-> fi,
     start_freq_MHz        |-> f,     \* held in Hz
     start_time_sec        |-> t,
     duration_sec          |-> dur,
     rate_index            |-> ri,
     drift_rate_Hz_per_sec |-> dr,
     power                 |-> pw,
     time_span_steps       |-> 16,
     integrated_channels   |-> ic,
     snr                   |-> pw,
     bandwidth             |-> 1,
     binwidth              |-> 1,
     rfi_counts            |-> rfi_counts,
     coarse_channel_number |-> 0]

\* hit::operator== : integrated_channels and coarse_channel_number excluded
HitEq(a, b) ==
    /\ a.start_freq_index = b.start_freq_index
    /\ a.start_freq_MHz = b.start_freq_MHz
    /\ a.start_time_sec = b.start_time_sec
    /\ a.duration_sec = b.duration_sec
    /\ a.rate_index = b.rate_index
    /\ a.drift_rate_Hz_per_sec = b.drift_rate_Hz_per_sec
    /\ a.power = b.power
    /\ a.time_span_steps = b.time_span_steps
    /\ a.snr = b.snr
    /\ a.bandwidth = b.bandwidth
    /\ a.binwidth = b.binwidth
    /\ a.rfi_counts = b.rfi_counts

-----------------------------------------------------------------------------
(* event_search.cpp: the distance metric *)

\* one distance unit of the source is DistUnits units of the model
DistUnits == 8 * 100

\* 1 / freq_localization_weight (0.01f)
freq_localization_weight_inv == 100
drift_error_weight == 10
snr_difference_weight == 0
\* std::numeric_limits<float>::max(), above every distance of the model
float_max == 2147483647
\* the literal 50 of evaluate_candidate_event and count_event_in_off_scans
match_threshold == 50

\* a drift term that squares the drift difference before normalising it:
\* drift_error_weight * ((a - b)^2 / (a^2 + b^2))^2
drift_error_term_of_squared_difference(a, b) ==
    LET dd == Abs(a.drift_rate_Hz_per_sec - b.drift_rate_Hz_per_sec)
        ss == a.drift_rate_Hz_per_sec * a.drift_rate_Hz_per_sec
              + b.drift_rate_Hz_per_sec * b.drift_rate_Hz_per_sec
    IN  IF dd = 0 THEN 0
        ELSE (drift_error_weight * DistUnits * dd * dd * dd * dd) \div (ss * ss)

\* drift_error_weight * drift_error of distance_func, in 1/DistUnits:
\* drift_difference = |a - b| / (eps + a^2 + b^2), drift_error its square
drift_error_term(a, b) ==
    LET dd == Abs(a.drift_rate_Hz_per_sec - b.drift_rate_Hz_per_sec)
        ss == a.drift_rate_Hz_per_sec * a.drift_rate_Hz_per_sec
              + b.drift_rate_Hz_per_sec * b.drift_rate_Hz_per_sec
    IN  IF dd = 0 THEN 0
        ELSE (drift_error_weight * DistUnits * dd * dd) \div (ss * ss)

\* float distance_func(const hit &a, const hit &b), in 1/DistUnits.
\* eps = 1e-8 only keeps 0/0 from happening when both drifts are 0 (the
\* quotient is then 0/eps = 0); for integer drift rates it is below the
\* model's resolution.
distance_func(a, b) ==
    LET snr_difference == Abs(a.snr - b.snr)
        drift_term == drift_error_term(a, b)
        first_sample_time == Min(a.start_time_sec, b.start_time_sec)
        \* the source adds b.duration_sec to both start times
        last_sample_time == Max(a.start_time_sec + b.duration_sec,
                                b.start_time_sec + b.duration_sec)
        \* twice the rendezvous time, to stay in integers
        rendezvous2 == last_sample_time + first_sample_time
        a_rendezvous_frequency2 ==
            2 * a.start_freq_MHz
            + a.drift_rate_Hz_per_sec * (rendezvous2 - 2 * a.start_time_sec)
        b_rendezvous_frequency2 ==
            2 * b.start_freq_MHz
            + b.drift_rate_Hz_per_sec * (rendezvous2 - 2 * b.start_time_sec)
        rendezvous_frequency_difference2 ==
            Abs(a_rendezvous_frequency2 - b_rendezvous_frequency2)
    IN  (DistUnits * rendezvous_frequency_difference2)
            \div (2 * freq_localization_weight_inv)
        + drift_term
        + snr_difference_weight * DistUnits * snr_difference

\* a comparator under which two keys are the same entry when their first
\* hits are equal
SameCacheKey_by_first_hit(e, p1, p2) == HitEq(e.first, p1)

\* hit_distance::hit_pair_comparator: two keys are the same entry when neither
\* orders before the other, which the comparator makes true of a pair and of
\* the pair swapped
SameCacheKey(e, p1, p2) ==
    \/ HitEq(e.first, p1) /\ HitEq(e.second, p2)
    \/ HitEq(e.first, p2) /\ HitEq(e.second, p1)

\* hit_distance::operator(): the distance and the cache after the call
hit_distance(cache, p1, p2) ==
    LET found == {e \in cache : SameCacheKey(e, p1, p2)}
    IN  IF found # {}
        THEN [d |-> (CHOOSE e \in found : TRUE).d, cache |-> cache]
        ELSE LET d == distance_func(p1, p2)
             IN  [d |-> d,
                  cache |-> cache \cup {[first |-> p1, second |-> p2, d |-> d]}]

-----------------------------------------------------------------------------
(* event_search.cpp: helpers.  A list element of the model is            *)
(* [hit |-> the hit, src |-> <<scan, position>>]: src is where the hit    *)
(* stood in the ON scan's list when the search began.  The source has no  *)
(* such field; it gives the list node an identity.                        *)

\* an inner loop that compares with the seed of the event only
lowest_dist_to_seed_only(event_hits, k, h, lowest, cache) ==
    LET r == hit_distance(cache, event_hits[1].hit, h)
    IN  [lowest |-> IF r.d < lowest THEN r.d ELSE lowest, cache |-> r.cache]

\* inner loop of find_best_matching_hit: the lowest distance between hit h
\* and the event's hits, from position k on
RECURSIVE lowest_dist_to_event(_, _, _, _, _)
lowest_dist_to_event(event_hits, k, h, lowest, cache) ==
    IF k > Len(event_hits)
    THEN [lowest |-> lowest, cache |-> cache]
    ELSE LET r == hit_distance(cache, event_hits[k].hit, h)
         IN  lowest_dist_to_event(event_hits, k + 1, h,
                                  IF r.d < lowest THEN r.d ELSE lowest, r.cache)

\* outer loop of find_best_matching_hit from position it on; best_it = 0 is
\* hits_to_check.end()
RECURSIVE best_match_from(_, _, _, _, _, _)
best_match_from(event_hits, hits_to_check, it, best_distance, best_it, cache) ==
    IF it > Len(hits_to_check)
    THEN [distance |-> best_distance, hit_it |-> best_it, cache |-> cache]
    ELSE LET r == lowest_dist_to_event(event_hits, 1, hits_to_check[it].hit,
                                       float_max, cache)
         IN  IF r.lowest < best_distance
             THEN best_match_from(event_hits, hits_to_check, it + 1,
                                  r.lowest, it, r.cache)
             ELSE best_match_from(event_hits, hits_to_check, it + 1,
                                  best_distance, best_it, r.cache)

find_best_matching_hit(ev, hits_to_check, cache) ==
    best_match_from(ev.hits, hits_to_check, 1, float_max, 0, cache)

\* an extraction that takes the target after the ON target only
extract_first_off_target(cad, on_target_index) ==
    IF Len(cad) > on_target_index THEN cad[on_target_index + 1] ELSE <<>>

\* extract_off_scans: the scans of every target but on_target_index, in order
RECURSIVE off_scans_from(_, _, _)
off_scans_from(cad, ii, on_target_index) ==
    IF ii > Len(cad) THEN <<>>
    ELSE (IF ii # on_target_index THEN cad[ii] ELSE <<>>)
         \o off_scans_from(cad, ii + 1, on_target_index)

extract_off_scans(cad, on_target_index) == off_scans_from(cad, 1, on_target_index)

\* the body of count_event_in_off_scans for one off hit: the summed distance
RECURSIVE dist_to_event_hits(_, _, _, _, _)
dist_to_event_hits(event_hits, k, off_hit, acc, cache) ==
    IF k > Len(event_hits)
    THEN [sum |-> acc, cache |-> cache]
    ELSE LET r == hit_distance(cache, off_hit, event_hits[k].hit)
         IN  dist_to_event_hits(event_hits, k + 1, off_hit, acc + r.d, r.cache)

\* the hits of all off scans, in the order the two outer loops visit them
RECURSIVE all_off_hits(_)
all_off_hits(off_scans) ==
    IF off_scans = <<>> THEN <<>>
    ELSE Head(off_scans).hits \o all_off_hits(Tail(off_scans))

RECURSIVE count_off_from(_, _, _, _, _)
count_off_from(ev, off_hits, k, times_in_off, cache) ==
    IF k > Len(off_hits)
    THEN [times_in_off |-> times_in_off, cache |-> cache]
    ELSE LET r == dist_to_event_hits(ev.hits, 1, off_hits[k], 0, cache)
         IN  \* dist_to_event_hits / candidate_event.hits.size() < 50
             IF r.sum < match_threshold * DistUnits * Len(ev.hits)
             THEN count_off_from(ev, off_hits, k + 1, times_in_off + 1, r.cache)
             ELSE count_off_from(ev, off_hits, k + 1, times_in_off, r.cache)

count_event_in_off_scans(ev, off_scans, cache) ==
    count_off_from(ev, all_off_hits(off_scans), 1, 0, cache)

\* finalize_event_averages: each average is kept as the exact quotient
\* [num, den] of the sum over the hits and the number of hits
finalize_event_averages(ev) ==
    LET n == Len(ev.hits)
        Sum(field(_)) == SeqSum([i \in 1..n |-> field(ev.hits[i].hit)])
        drift(h) == h.drift_rate_Hz_per_sec
        power(h) == h.power
        snr(h) == h.snr
        bandwidth(h) == h.bandwidth
    IN  [ev EXCEPT !.average_drift_rate_Hz_per_sec = [num |-> Sum(drift), den |-> n],
                   !.average_power = [num |-> Sum(power), den |-> n],
                   !.average_snr = [num |-> Sum(snr), den |-> n],
                   !.average_bandwidth = [num |-> Sum(bandwidth), den |-> n]]

\* the event evaluate_candidate_event starts from the seed
new_candidate_event(starting, starting_scan) ==
    [hits |-> <<starting>>,
     starting_frequency_Hz |-> starting.hit.start_freq_MHz,
     average_power |-> [num |-> starting.hit.power, den |-> 1],
     average_bandwidth |-> [num |-> 0, den |-> 1],
     average_snr |-> [num |-> starting.hit.snr, den |-> 1],
     average_drift_rate_Hz_per_sec |->
         [num |-> starting.hit.drift_rate_Hz_per_sec, den |-> 1],
     event_start_seconds |-> starting_scan.tstart_sec,
     event_end_seconds |-> starting_scan.tstart_sec + starting_scan.tduration_secs]

NoEvent == [hits |-> <<>>]

\* a test that lets a lone seed pass
is_valid_event_lone_seed(ev, times_in_off) == Len(ev.hits) >= 1 /\ times_in_off = 0

\* the test of evaluate_candidate_event on what it built
is_valid_event(ev, times_in_off) == Len(ev.hits) > 1 /\ times_in_off = 0

-----------------------------------------------------------------------------
(* The cadences searched *)

\* the cadence holds at most MaxHits hits in all
MaxHits == 4

\* start of each ON scan and of each OFF scan, seconds (tstart * 86400)
OnScanStart == <<0, 200, 400>>
OffScanStart == <<100, 300>>
NumOnScans == Len(OnScanStart)
NumOffTargets == Len(OffScanStart)
ScanDuration == 4 * 4

\* a hit of a scan that starts at t, as hit_search characterises it
ScanHit(t, fi, f, ri, dr) == MkHit(fi, f, t, ScanDuration, ri, dr, 100, 16, EmptyRfi)

\* the hits an ON scan starting at t may hold: a tone at rest on 0 Hz, a
\* second detection of it under another (start_freq_index, rate_index), a
\* tone at rest 5000 Hz above (distance exactly 50 from the first), and a
\* tone on 0 Hz drifting at 20 Hz/s
HitPool(t) ==
    << ScanHit(t, 10, 0, 0, 0),
       ScanHit(t, 8, 0, 1, 0),
       ScanHit(t, 15, 5000, 0, 0),
       ScanHit(t, 10, 0, 2, 20) >>

\* the hits an OFF scan starting at t may hold: the tone at rest on 0 Hz and
\* one 4000 Hz below it
OffHitPool(t) ==
    << ScanHit(t, 10, 0, 0, 0),
       ScanHit(t, 6, -4000, 0, 0) >>

MkScan(t, hits) == [hits |-> hits, tstart_sec |-> t, tduration_secs |-> ScanDuration]

\* the numbers of hits of the ON scans and of the OFF scans (one per OFF
\* target) of a cadence
LenVectors ==
    {n \in [on : [1..NumOnScans -> 0..MaxHits], off : [1..NumOffTargets -> 0..MaxHits]] :
        SeqSum(n.on) + SeqSum(n.off) <= MaxHits}

\* the number of hits in the scans before scan i
Offset(n, i) == SeqSum(SubSeq(n, 1, i - 1))

\* the cadence whose scans have n.on and n.off hits, the k-th hit of the ON
\* scans being number pick_on[k] of its scan's pool, and likewise pick_off
MkCadence(n, pick_on, pick_off) ==
    <<[i \in 1..NumOnScans |->
         MkScan(OnScanStart[i],
                [j \in 1..n.on[i] |->
                    HitPool(OnScanStart[i])[pick_on[Offset(n.on, i) + j]]])]>>
    \o [i \in 1..NumOffTargets |->
         <<MkScan(OffScanStart[i],
                  [j \in 1..n.off[i] |->
                      OffHitPool(OffScanStart[i])[pick_off[Offset(n.off, i) + j]]])>>]

-----------------------------------------------------------------------------
(* std::vector<event> event_search(cadence cadence_with_hits) *)

on_target_index == 1
on_target_obs == cadence[on_target_index]

\* scan.hits() of every ON scan, each node tagged with its place
InitialOnScanHits(cad) ==
    [s \in 1..Len(cad[on_target_index]) |->
        [i \in 1..Len(cad[on_target_index][s].hits) |->
            [hit |-> cad[on_target_index][s].hits[i], src |-> <<s, i>>]]]

EsInit ==
    /\ \E n \in LenVectors :
          \E pick_on \in [1..SeqSum(n.on) -> 1..Len(HitPool(0))] :
              \E pick_off \in [1..SeqSum(n.off) -> 1..Len(OffHitPool(0))] :
                  cadence = MkCadence(n, pick_on, pick_off)
    /\ on_scan_hits = InitialOnScanHits(cadence)
    /\ detected_events = <<>>
    /\ on_scan_index = 1
    /\ seed_pos = 1
    /\ candidate_event = NoEvent
    /\ matching_scan_index = 0
    /\ times_event_in_off = 0
    /\ distance_cache = {}
    /\ pc = "seed"

\* a start of evaluate_candidate_event whose loop over the scans begins with
\* the seed's own scan
StartCandidate_matching_from_seed_scan ==
    /\ UNCHANGED notEs
    /\ pc = "seed"
    /\ on_scan_index <= Len(on_target_obs)
    /\ seed_pos <= Len(on_scan_hits[on_scan_index])
    /\ candidate_event' = new_candidate_event(on_scan_hits[on_scan_index][seed_pos],
                                              on_target_obs[on_scan_index])
    /\ matching_scan_index' = on_scan_index
    /\ pc' = "match"
    /\ UNCHANGED <<cadence, on_scan_hits, detected_events, on_scan_index, seed_pos,
                   times_event_in_off, distance_cache>>

\* the range-for takes the next hit of the seed scan and
\* evaluate_candidate_event seeds an event with it
StartCandidate ==
    /\ UNCHANGED notEs
    /\ pc = "seed"
    /\ on_scan_index <= Len(on_target_obs)
    /\ seed_pos <= Len(on_scan_hits[on_scan_index])
    /\ candidate_event' = new_candidate_event(on_scan_hits[on_scan_index][seed_pos],
                                              on_target_obs[on_scan_index])
    /\ matching_scan_index' = on_scan_index + 1
    /\ pc' = "match"
    /\ UNCHANGED <<cadence, on_scan_hits, detected_events, on_scan_index, seed_pos,
                   times_event_in_off, distance_cache>>

\* one iteration of the loop over the subsequent scans
MatchScan ==
    /\ UNCHANGED notEs
    /\ pc = "match"
    /\ matching_scan_index <= Len(on_target_obs)
    /\ LET hits_to_check == on_scan_hits[matching_scan_index]
           match == find_best_matching_hit(candidate_event, hits_to_check,
                                           distance_cache)
       IN  /\ distance_cache' = match.cache
           /\ IF match.distance < match_threshold * DistUnits
              THEN /\ candidate_event' =
                         [candidate_event EXCEPT
                            !.hits = Append(@, hits_to_check[match.hit_it])]
                   /\ on_scan_hits' =
                         [on_scan_hits EXCEPT
                            ![matching_scan_index] = RemoveAt(@, match.hit_it)]
              ELSE UNCHANGED <<candidate_event, on_scan_hits>>
    /\ matching_scan_index' = matching_scan_index + 1
    /\ UNCHANGED <<cadence, detected_events, on_scan_index, seed_pos,
                   times_event_in_off, pc>>

\* the hits an event took from the later scans, put back at the end of their
\* scans' lists
hits_put_back(lists, ev) ==
    [s \in DOMAIN lists |->
        lists[s] \o SelectSeq(Tail(ev.hits), LAMBDA node : node.src[1] = s)]

\* an end of evaluate_candidate_event that gives the hits of a discarded
\* candidate back to their scans
FinishCandidate_restoring_hits ==
    /\ UNCHANGED notEs
    /\ pc = "match"
    /\ matching_scan_index > Len(on_target_obs)
    /\ LET off == count_event_in_off_scans(
                      candidate_event,
                      extract_off_scans(cadence, on_target_index),
                      distance_cache)
       IN  /\ times_event_in_off' = off.times_in_off
           /\ distance_cache' = off.cache
           /\ IF is_valid_event(candidate_event, off.times_in_off)
              THEN /\ candidate_event' = finalize_event_averages(candidate_event)
                   /\ detected_events' = Append(detected_events, candidate_event')
                   /\ UNCHANGED on_scan_hits
              ELSE /\ on_scan_hits' = hits_put_back(on_scan_hits, candidate_event)
                   /\ UNCHANGED <<candidate_event, detected_events>>
    /\ seed_pos' = seed_pos + 1
    /\ pc' = "seed"
    /\ UNCHANGED <<cadence, on_scan_index, matching_scan_index>>

\* the end of evaluate_candidate_event and the emplace_back of event_search
FinishCandidate ==
    /\ UNCHANGED notEs
    /\ pc = "match"
    /\ matching_scan_index > Len(on_target_obs)
    /\ LET off == count_event_in_off_scans(
                      candidate_event,
                      extract_off_scans(cadence, on_target_index),
                      distance_cache)
       IN  /\ times_event_in_off' = off.times_in_off
           /\ distance_cache' = off.cache
           /\ IF is_valid_event(candidate_event, off.times_in_off)
              THEN /\ candidate_event' = finalize_event_averages(candidate_event)
                   /\ detected_events' = Append(detected_events, candidate_event')
              ELSE UNCHANGED <<candidate_event, detected_events>>
    /\ seed_pos' = seed_pos + 1
    /\ pc' = "seed"
    /\ UNCHANGED <<cadence, on_scan_hits, on_scan_index, matching_scan_index>>

\* the seed scan's list is exhausted: on to the next ON scan
NextSeedScan ==
    /\ UNCHANGED notEs
    /\ pc = "seed"
    /\ on_scan_index <= Len(on_target_obs)
    /\ seed_pos > Len(on_scan_hits[on_scan_index])
    /\ on_scan_index' = on_scan_index + 1
    /\ seed_pos' = 1
    /\ UNCHANGED <<cadence, on_scan_hits, detected_events, candidate_event,
                   matching_scan_index, times_event_in_off, distance_cache, pc>>

\* return detected_events
ReturnEvents ==
    /\ UNCHANGED notEs
    /\ pc = "seed"
    /\ on_scan_index > Len(on_target_obs)
    /\ pc' = "done"
    /\ UNCHANGED <<cadence, on_scan_hits, detected_events, on_scan_index, seed_pos,
                   candidate_event, matching_scan_index, times_event_in_off,
                   distance_cache>>

EsNext ==
    \/ StartCandidate
    \/ MatchScan
    \/ FinishCandidate
    \/ NextSeedScan
    \/ ReturnEvents

\* cadences whose scans differ in duration as well as in start time: the
\* ON scans last 16, 32 and 16 seconds and the OFF scans 32 and 16, and the
\* cadence holds at most MaxTimedHits hits in all
MaxTimedHits == 3
OnScanDuration == <<16, 32, 16>>
OffScanDuration == <<32, 16>>

TimedHit(t, dur, fi, f, ri, dr) == MkHit(fi, f, t, dur, ri, dr, 100, 16, EmptyRfi)

\* the hits a scan starting at t may hold: a tone at rest on 0 Hz and a tone
\* that was on 0 Hz at time 0 and drifts at 20 Hz/s
TimedHitPool(t, dur) ==
    << TimedHit(t, dur, 10, 0, 0, 0),
       TimedHit(t, dur, 10 + t, 20 * t, 2, 20) >>

MkTimedScan(t, dur, hits) == [hits |-> hits, tstart_sec |-> t, tduration_secs |-> dur]

TimedLenVectors ==
    {n \in [on : [1..NumOnScans -> 0..MaxTimedHits],
            off : [1..NumOffTargets -> 0..MaxTimedHits]] :
        SeqSum(n.on) + SeqSum(n.off) <= MaxTimedHits}

MkTimedCadence(n, pick_on, pick_off) ==
    <<[i \in 1..NumOnScans |->
         MkTimedScan(OnScanStart[i], OnScanDuration[i],
                     [j \in 1..n.on[i] |->
                         TimedHitPool(OnScanStart[i], OnScanDuration[i])
                             [pick_on[Offset(n.on, i) + j]]])]>>
    \o [i \in 1..NumOffTargets |->
         <<MkTimedScan(OffScanStart[i], OffScanDuration[i],
                       [j \in 1..n.off[i] |->
                           TimedHitPool(OffScanStart[i], OffScanDuration[i])
                               [pick_off[Offset(n.off, i) + j]]])>>]

EsInitTimed ==
    /\ \E n \in TimedLenVectors :
          \E pick_on \in [1..SeqSum(n.on) -> 1..2] :
              \E pick_off \in [1..SeqSum(n.off) -> 1..2] :
                  cadence = MkTimedCadence(n, pick_on, pick_off)
    /\ on_scan_hits = InitialOnScanHits(cadence)
    /\ detected_events = <<>>
    /\ on_scan_index = 1
    /\ seed_pos = 1
    /\ candidate_event = NoEvent
    /\ matching_scan_index = 0
    /\ times_event_in_off = 0
    /\ distance_cache = {}
    /\ pc = "seed"

\* no event search is running
EsIdle ==
    /\ cadence = <<>>
    /\ on_scan_hits = <<>>
    /\ detected_events = <<>>
    /\ on_scan_index = 0
    /\ seed_pos = 0
    /\ candidate_event = NoEvent
    /\ matching_scan_index = 0
    /\ times_event_in_off = 0
    /\ distance_cache = {}
    /\ pc = "idle"

-----------------------------------------------------------------------------
(* filter_hits.cpp.  In this part drift_rate_Hz_per_sec is held in units of *)
(* 1e-7 Hz/s, so that the zero-drift epsilon 1e-6 is the integer 10.        *)

\* constexpr double eps = 1e-6
zero_drift_eps == 10

\* A float threshold fraction is [num, den, excess]: the value num/den when
\* excess = 0 (num/den is a float), and the float next above num/den when
\* excess = 1 (0.1f = 0.100000001490116...).  The product with an integer
\* N < 2^29 is exact in double, so for integers c and N:
\*   c < N * p  iff  c * den < N * num, or excess = 1 and c * den = N * num
\*   c > N * p  iff  c * den > N * num
float_tenth == [num |-> 1, den |-> 10, excess |-> 1]
float_quarter == [num |-> 1, den |-> 4, excess |-> 0]

\* a comparison with the product clipped to the largest 8-bit count
count_below_clipped_product(c, N, p) ==
    /\ c < 255
    /\ \/ c * p.den < N * p.num
       \/ p.excess = 1 /\ c * p.den = N * p.num

count_below(c, N, p) ==
    \/ c * p.den < N * p.num
    \/ p.excess = 1 /\ c * p.den = N * p.num
count_above(c, N, p) == c * p.den > N * p.num

\* struct filter_options with its declared defaults
default_filter_options ==
    [filter_zero_drift |-> TRUE,
     filter_sigmaclip |-> TRUE,
     minimum_percent_sigmaclip |-> float_tenth,
     filter_high_sk |-> FALSE,
     minimum_percent_high_sk |-> float_tenth,
     filter_low_sk |-> FALSE,
     maximum_percent_low_sk |-> float_tenth]

\* std::map::operator[]: the map with key k present (value-initialised to 0
\* when it was absent)
rfi_with_key(m, k) ==
    IF k \in DOMAIN m THEN m
    ELSE [x \in DOMAIN m \cup {k} |-> IF x = k THEN 0 ELSE m[x]]

\* a predicate whose low-SK rule rejects too few flags instead of too many
remove_if_low_sk_below(current_hit, options) ==
    IF options.filter_zero_drift
       /\ Abs(current_hit.drift_rate_Hz_per_sec) < zero_drift_eps
    THEN [remove |-> TRUE, hit |-> current_hit]
    ELSE
    LET abs_integrated == Abs(current_hit.integrated_channels)
        h1 == IF options.filter_sigmaclip
              THEN [current_hit EXCEPT !.rfi_counts = rfi_with_key(@, "sigma_clip")]
              ELSE current_hit
    IN  IF options.filter_sigmaclip
           /\ count_below(h1.rfi_counts["sigma_clip"], abs_integrated,
                          options.minimum_percent_sigmaclip)
        THEN [remove |-> TRUE, hit |-> h1]
        ELSE
        LET h2 == IF options.filter_high_sk
                  THEN [h1 EXCEPT !.rfi_counts = rfi_with_key(@, "high_spectral_kurtosis")]
                  ELSE h1
        IN  IF options.filter_high_sk
               /\ count_below(h2.rfi_counts["high_spectral_kurtosis"], abs_integrated,
                              options.minimum_percent_high_sk)
            THEN [remove |-> TRUE, hit |-> h2]
            ELSE
            LET h3 == IF options.filter_low_sk
                      THEN [h2 EXCEPT !.rfi_counts = rfi_with_key(@, "low_spectral_kurtosis")]
                      ELSE h2
            IN  IF options.filter_low_sk
                   /\ count_below(h3.rfi_counts["low_spectral_kurtosis"], abs_integrated,
                                  options.maximum_percent_low_sk)
                THEN [remove |-> TRUE, hit |-> h3]
                ELSE [remove |-> FALSE, hit |-> h3]

\* the lambda of filter_hits: whether the hit is removed, and the hit as the
\* lambda leaves it (it takes the hit by reference, and rfi_counts[...]
\* inserts the keys it reads)
remove_if_predicate(current_hit, options) ==
    IF options.filter_zero_drift
       /\ Abs(current_hit.drift_rate_Hz_per_sec) < zero_drift_eps
    THEN [remove |-> TRUE, hit |-> current_hit]
    ELSE
    LET abs_integrated == Abs(current_hit.integrated_channels)
        h1 == IF options.filter_sigmaclip
              THEN [current_hit EXCEPT !.rfi_counts = rfi_with_key(@, "sigma_clip")]
              ELSE current_hit
    IN  IF options.filter_sigmaclip
           /\ count_below(h1.rfi_counts["sigma_clip"], abs_integrated,
                          options.minimum_percent_sigmaclip)
        THEN [remove |-> TRUE, hit |-> h1]
        ELSE
        LET h2 == IF options.filter_high_sk
                  THEN [h1 EXCEPT !.rfi_counts = rfi_with_key(@, "high_spectral_kurtosis")]
                  ELSE h1
        IN  IF options.filter_high_sk
               /\ count_below(h2.rfi_counts["high_spectral_kurtosis"], abs_integrated,
                              options.minimum_percent_high_sk)
            THEN [remove |-> TRUE, hit |-> h2]
            ELSE
            LET h3 == IF options.filter_low_sk
                      THEN [h2 EXCEPT !.rfi_counts = rfi_with_key(@, "low_spectral_kurtosis")]
                      ELSE h2
            IN  IF options.filter_low_sk
                   /\ count_above(h3.rfi_counts["low_spectral_kurtosis"], abs_integrated,
                                  options.maximum_percent_low_sk)
                THEN [remove |-> TRUE, hit |-> h3]
                ELSE [remove |-> FALSE, hit |-> h3]

\* a removal loop that steps over the element after each one it erases
RECURSIVE remove_if_skipping(_, _)
remove_if_skipping(hits, options) ==
    IF hits = <<>> THEN <<>>
    ELSE LET r == remove_if_predicate(Head(hits), options)
         IN  IF r.remove
             THEN IF Len(hits) = 1 THEN <<>>
                  ELSE <<hits[2]>> \o remove_if_skipping(Tail(Tail(hits)), options)
             ELSE <<r.hit>> \o remove_if_skipping(Tail(hits), options)

\* std::list<hit> filter_hits(std::list<hit> hits, filter_options options)
RECURSIVE filter_hits(_, _)
filter_hits(hits, options) ==
    IF hits = <<>> THEN <<>>
    ELSE LET r == remove_if_predicate(Head(hits), options)
         IN  (IF r.remove THEN <<>> ELSE <<r.hit>>)
             \o filter_hits(Tail(hits), options)

\* the lists filtered hold at most MaxFilterHits hits
MaxFilterHits == 2

\* rfi tallies: the three counts equal to c
Rfi(c) == [k \in FlagKeys |-> c]

FilterHit(dr, ic, rfi_counts) == MkHit(10, 0, 0, ScanDuration, 0, dr, 100, ic, rfi_counts)

\* the hits filtered: the constant tone of an unflagged channel with its
\* tallies present and absent, drifts below, at and above the epsilon, tallies
\* on both sides of N * 0.1 and N * 0.25 for N = 16 and N = 10, a negative
\* integrated_channels, and a tally with two keys absent
FilterHitPool ==
    << FilterHit(0, 16, Rfi(0)),
       FilterHit(0, 16, EmptyRfi),
       FilterHit(5, 16, Rfi(4)),
       FilterHit(10, 16, Rfi(1)),
       FilterHit(30, 16, Rfi(2)),
       FilterHit(30, 16, Rfi(4)),
       FilterHit(30, 10, Rfi(1)),
       FilterHit(30, 0 - 16, [k \in {"sigma_clip"} |-> 4]) >>

\* the options filtered with: every choice of the four switches, the three
\* fractions all 0.1f (the default) or all 0.25
FilterOptionsPool ==
    { [filter_zero_drift |-> zd,
       filter_sigmaclip |-> sc,
       minimum_percent_sigmaclip |-> p,
       filter_high_sk |-> hs,
       minimum_percent_high_sk |-> p,
       filter_low_sk |-> ls,
       maximum_percent_low_sk |-> p]
      : zd \in BOOLEAN, sc \in BOOLEAN, hs \in BOOLEAN, ls \in BOOLEAN,
        p \in {float_tenth, float_quarter} }

FhInit ==
    /\ fh_options \in FilterOptionsPool
    /\ \E n \in 0..MaxFilterHits :
          \E pick \in [1..n -> 1..Len(FilterHitPool)] :
              fh_input = [i \in 1..n |-> FilterHitPool[pick[i]]]
    /\ fh_arg = <<>>
    /\ fh_hits = fh_input
    /\ fh_calls = 0

\* hits that integrate many channels: the lists hold at most MaxWideHits of
\* them.  A count is a uint8_t; with 0.25 the product is 255 for 1020
\* channels and 256 for 1024, and with 0.1f it is above 255 from 2550 on
MaxWideHits == 1
Uint8Counts == {0, 254, 255}
WideChannels == {16, 1020, 1024, 2550, 0 - 2560}

WideHitPool ==
    {FilterHit(30, ic, [k \in FlagKeys |->
                          IF k = "sigma_clip" THEN c1
                          ELSE IF k = "high_spectral_kurtosis" THEN c2 ELSE 0])
       : ic \in WideChannels, c1 \in Uint8Counts, c2 \in Uint8Counts}

FhInitWide ==
    /\ fh_options \in FilterOptionsPool
    /\ \E n \in 1..MaxWideHits : fh_input \in [1..n -> WideHitPool]
    /\ fh_arg = <<>>
    /\ fh_hits = fh_input
    /\ fh_calls = 0

\* no filter is running
FhIdle ==
    /\ fh_options = default_filter_options
    /\ fh_input = <<>>
    /\ fh_arg = <<>>
    /\ fh_hits = <<>>
    /\ fh_calls = 0

\* the caller filters a list, and then filters what it got with the same options
CallFilterHits ==
    /\ UNCHANGED notFh
    /\ fh_calls < 2
    /\ fh_arg' = fh_hits
    /\ fh_hits' = filter_hits(fh_hits, fh_options)
    /\ fh_calls' = fh_calls + 1
    /\ UNCHANGED <<fh_options, fh_input>>

FhNext == CallFilterHits

-----------------------------------------------------------------------------
(* integrate_drifts.cpp: compute_drifts.  Rates are exact fractions: foff is *)
(* held as foff_Hz = foff * 1e6, an integer number of Hz, tsamp and the two  *)
(* rate bounds are integers, and every rate in Hz/s is a numerator over the  *)
(* common denominator (time_steps - 1) * tsamp.                              *)

\* std::round and std::lround of p / q (q # 0): nearest integer, halves away
\* from zero
RoundDiv(p, q) ==
    LET n == (2 * Abs(p) + Abs(q)) \div (2 * Abs(q))
    IN  IF (p < 0) # (q < 0) THEN 0 - n ELSE n

\* struct integrate_drifts_options with its declared defaults
default_integrate_drifts_options ==
    [desmear |-> TRUE, low_rate_Hz_per_sec |-> 0 - 5, high_rate_Hz_per_sec |-> 5,
     resolution |-> 1]

maximum_drift_time_span(a) == a.time_steps - 1

\* the denominator of every rate: unit_drift_resolution = foff_Hz / rate_den
rate_den(a) == (a.time_steps - 1) * a.tsamp

\* numerators over rate_den
unit_drift_resolution(a) == a.foff_Hz
search_resolution_Hz_sec(a) == unit_drift_resolution(a) * a.options.resolution
rounded_low_drift_Hz_sec(a) ==
    RoundDiv(a.options.low_rate_Hz_per_sec * rate_den(a), unit_drift_resolution(a))
        * unit_drift_resolution(a)
rounded_high_drift_Hz_sec(a) ==
    RoundDiv(a.options.high_rate_Hz_per_sec * rate_den(a), unit_drift_resolution(a))
        * unit_drift_resolution(a)

\* number_drifts as the fraction num / den (den = 0 when resolution = 0)
number_drifts(a) ==
    [num |-> Abs(rounded_high_drift_Hz_sec(a) - rounded_low_drift_Hz_sec(a)),
     den |-> Abs(search_resolution_Hz_sec(a))]

\* index < number_drifts
index_below_number_drifts(i, a) == i * number_drifts(a).den < number_drifts(a).num

\* a step that keeps the sign of search_resolution_Hz_sec
drift_rate_signed_step(a, i) ==
    rounded_low_drift_Hz_sec(a) + i * search_resolution_Hz_sec(a)

\* auto drift_rate = rounded_low_drift_Hz_sec + index * std::abs(search_resolution_Hz_sec)
drift_rate_at(a, i) ==
    rounded_low_drift_Hz_sec(a) + i * Abs(search_resolution_Hz_sec(a))

\* a span computed against the width of the channel, |foff_Hz|
drift_channels_span_abs_foff(a, drift_rate) ==
    RoundDiv(drift_rate * (maximum_drift_time_span(a) * a.tsamp),
             rate_den(a) * Abs(a.foff_Hz))

\* std::lround(drift_rate * ((maximum_drift_time_span)*tsamp)/(foff_Hz))
drift_channels_span_of(a, drift_rate) ==
    RoundDiv(drift_rate * (maximum_drift_time_span(a) * a.tsamp),
             rate_den(a) * a.foff_Hz)

\* the body of the loop: the drift_rate pushed for an index
make_drift_rate(a, i) ==
    LET drift_rate == drift_rate_at(a, i)
        drift_channels_span == drift_channels_span_of(a, drift_rate)
        smeared_channels == RoundDiv(Abs(drift_channels_span), maximum_drift_time_span(a))
    IN  [index_in_plane |-> i,
         drift_channels_span |-> drift_channels_span,
         drift_rate_slope |-> [num |-> drift_channels_span,
                               den |-> maximum_drift_time_span(a)],
         drift_rate_Hz_per_sec |-> [num |-> drift_rate, den |-> rate_den(a)],
         desmeared_bins |-> IF a.options.desmear THEN Max(1, smeared_channels) ELSE 1]

\* the rate bounds searched lie in -MaxRate..MaxRate Hz/s
MaxRate == 2

\* the calls made: 2, 3 and 5 time steps, 1 s and 2 s sampling, channels of
\* 2 and 3 Hz of either sign, every pair of bounds (low > high included),
\* resolutions of either sign and 0
ComputeDriftsCalls ==
    { [time_steps |-> ts, foff_Hz |-> f, tsamp |-> t,
       options |-> [desmear |-> d, low_rate_Hz_per_sec |-> lo,
                    high_rate_Hz_per_sec |-> hi, resolution |-> r]]
      : ts \in {2, 3, 5}, f \in {0 - 3, 0 - 2, 2, 3}, t \in {1, 2},
        d \in BOOLEAN, lo \in (0 - MaxRate)..MaxRate, hi \in (0 - MaxRate)..MaxRate,
        r \in {0 - 1, 0, 1, 2} }

CdInit ==
    /\ cd_args \in ComputeDriftsCalls
    /\ index = 0
    /\ drift_rate_info = <<>>
    /\ cd_pc = "call"

\* no call of compute_drifts is running
CdIdle ==
    /\ cd_args = [time_steps |-> 2, foff_Hz |-> 2, tsamp |-> 1,
                  options |-> default_integrate_drifts_options]
    /\ index = 0
    /\ drift_rate_info = <<>>
    /\ cd_pc = "idle"

\* lines 471-488, resolution # 0: the bounds are rounded, the vector reserved
EnterLoop ==
    /\ UNCHANGED notCd
    /\ cd_pc = "call"
    /\ cd_args.options.resolution # 0
    /\ index' = 0
    /\ drift_rate_info' = <<>>
    /\ cd_pc' = "loop"
    /\ UNCHANGED cd_args

\* lines 471-488, resolution = 0: number_drifts is a division by zero, and
\* its conversion to size_t for reserve is undefined.  Infinity (rounded
\* bounds differ) never yields a vector: reserve throws, or the loop never
\* ends.  NaN (rounded bounds equal) makes reserve throw or reserve nothing,
\* and index < NaN is false, so the vector returned is empty.
ReserveUndefined ==
    /\ UNCHANGED notCd
    /\ cd_pc = "call"
    /\ cd_args.options.resolution = 0
    /\ cd_pc' \in {"throw"} \cup (IF number_drifts(cd_args).num = 0 THEN {"done"} ELSE {})
    /\ UNCHANGED <<cd_args, index, drift_rate_info>>

\* one iteration of the loop
PushDriftRate ==
    /\ UNCHANGED notCd
    /\ cd_pc = "loop"
    /\ index_below_number_drifts(index, cd_args)
    /\ drift_rate_info' = Append(drift_rate_info, make_drift_rate(cd_args, index))
    /\ index' = index + 1
    /\ UNCHANGED <<cd_args, cd_pc>>

\* the loop condition fails: return drift_rate_info
ReturnDriftRates ==
    /\ UNCHANGED notCd
    /\ cd_pc = "loop"
    /\ ~index_below_number_drifts(index, cd_args)
    /\ cd_pc' = "done"
    /\ UNCHANGED <<cd_args, index, drift_rate_info>>

CdNext == EnterLoop \/ ReserveUndefined \/ PushDriftRate \/ ReturnDriftRates

-----------------------------------------------------------------------------
(* hit_search.cpp: hit_search on a coarse channel.  Frequencies are held in *)
(* Hz (fch1_Hz = fch1 * 1e6, foff_Hz = foff * 1e6), the drift rate of a hit *)
(* is the fraction its drift_rate_info entry holds, snr is a fraction.      *)

\* 2^n
RECURSIVE Pow2(_)
Pow2(n) == IF n = 0 THEN 1 ELSE 2 * Pow2(n - 1)

\* the exponent e >= 0 with x < 2^(24 + e), least
RECURSIVE float_exponent(_, _)
float_exponent(x, e) == IF x < Pow2(24 + e) THEN e ELSE float_exponent(x, e + 1)

\* conversion of x >= 0 to float: 24 significant bits, round to nearest, ties
\* to even
to_float(x) ==
    LET q == Pow2(float_exponent(x, 0))
        lo == x \div q
        r == x % q
    IN  IF 2 * r < q \/ (2 * r = q /\ lo % 2 = 0) THEN lo * q ELSE (lo + 1) * q

\* the values an int64_t member without initializer may hold
indeterminate_int64 == {0, 16}

\* the drift_rate_info of the plane: what compute_drifts returns
RECURSIVE drift_rates_from(_, _)
drift_rates_from(a, i) ==
    IF index_below_number_drifts(i, a)
    THEN <<make_drift_rate(a, i)>> \o drift_rates_from(a, i + 1)
    ELSE <<>>

compute_drifts(a) == drift_rates_from(a, 0)

\* a hit that takes its frequency from the peak, not the centroid
hit_of_protohit_at_peak(c, ch, tss) ==
    LET rate == ch.drift_rate_info[c.index_max.drift_index + 1]
        signal_power == c.max_integration - ch.noise_floor
    IN  [MkHit(c.index_max.frequency_channel,
               ch.fch1_Hz + ch.foff_Hz * c.index_max.frequency_channel,
               ch.tstart * 24 * 60 * 60,
               ch.tsamp * ch.integration_steps,
               c.index_max.drift_index,
               rate.drift_rate_Hz_per_sec,
               signal_power,
               rate.desmeared_bins * ch.integration_steps,
               c.rfi_counts)
         EXCEPT !.snr = [num |-> signal_power, den |-> c.desmeared_noise],
                !.binwidth = c.binwidth,
                !.bandwidth = c.binwidth * to_float(Abs(ch.foff_Hz)),
                !.coarse_channel_number = ch.coarse_channel_number,
                !.time_span_steps = tss]

\* the body of the loop: the hit built from protohit c of channel ch;
\* time_span_steps is never assigned and holds tss
hit_of_protohit(c, ch, tss) ==
    LET rate == ch.drift_rate_info[c.index_max.drift_index + 1]
        signal_power == c.max_integration - ch.noise_floor
    IN  [MkHit(c.index_max.frequency_channel,
               ch.fch1_Hz + ch.foff_Hz * c.index_center.frequency_channel,
               ch.tstart * 24 * 60 * 60,
               ch.tsamp * ch.integration_steps,
               c.index_max.drift_index,
               rate.drift_rate_Hz_per_sec,
               signal_power,
               rate.desmeared_bins * ch.integration_steps,
               c.rfi_counts)
         EXCEPT !.snr = [num |-> signal_power, den |-> c.desmeared_noise],
                !.binwidth = c.binwidth,
                !.bandwidth = c.binwidth * to_float(Abs(ch.foff_Hz)),
                !.coarse_channel_number = ch.coarse_channel_number,
                !.time_span_steps = tss]

\* struct protohit (snr and locations are not read by hit_search)
MkProtohit(md, mc, cd, cch, integration, noise, width, rfi) ==
    [index_max |-> [drift_index |-> md, frequency_channel |-> mc],
     index_center |-> [drift_index |-> cd, frequency_channel |-> cch],
     max_integration |-> integration,
     desmeared_noise |-> noise,
     binwidth |-> width,
     rfi_counts |-> rfi]

\* hit_search is given at most MaxProtohits protohits
MaxProtohits == 2

\* the protohits found: a peak that is its own centroid, centroids above and
\* below the peak, with and without rfi tallies
ProtohitPool ==
    << MkProtohit(0, 10, 0, 10, 100, 2, 1, EmptyRfi),
       MkProtohit(1, 20, 1, 22, 50, 4, 3, Rfi(1)),
       MkProtohit(2, 5, 1, 4, 7, 3, 2, [k \in {"sigma_clip"} |-> 4]) >>

\* the dedrifted channels searched: planes of 2 and 3 integration steps over
\* the default drift range, either band orientation
DedriftedChannels ==
    { [fch1_Hz |-> 1000, foff_Hz |-> f, tsamp |-> t, tstart |-> ts,
       coarse_channel_number |-> number, noise_floor |-> nf,
       integration_steps |-> steps,
       drift_rate_info |-> compute_drifts([time_steps |-> steps, foff_Hz |-> f,
                              tsamp |-> t,
                              options |-> default_integrate_drifts_options])]
      : f \in {0 - 2, 3}, t \in {1, 2}, ts \in {0, 1}, number \in {0, 3},
        nf \in {0, 5}, steps \in {2, 3} }

HsInit ==
    /\ hs_channel \in DedriftedChannels
    /\ \E n \in 0..MaxProtohits :
          \E pick \in [1..n -> 1..Len(ProtohitPool)] :
              protohits = [i \in 1..n |-> ProtohitPool[pick[i]]]
    /\ hs_hits = <<>>
    /\ hs_next = 1
    /\ hs_pc = "loop"

\* no hit search is running
HsIdle ==
    /\ hs_channel = [fch1_Hz |-> 0]
    /\ protohits = <<>>
    /\ hs_hits = <<>>
    /\ hs_next = 1
    /\ hs_pc = "idle"

\* one iteration of the loop over the protohits
PushHit ==
    /\ UNCHANGED notHs
    /\ hs_pc = "loop"
    /\ hs_next <= Len(protohits)
    /\ \E tss \in indeterminate_int64 :
          hs_hits' = Append(hs_hits, hit_of_protohit(protohits[hs_next], hs_channel, tss))
    /\ hs_next' = hs_next + 1
    /\ UNCHANGED <<hs_channel, protohits, hs_pc>>

\* return hits
ReturnHits ==
    /\ UNCHANGED notHs
    /\ hs_pc = "loop"
    /\ hs_next > Len(protohits)
    /\ hs_pc' = "done"
    /\ UNCHANGED <<hs_channel, protohits, hs_hits, hs_next>>

HsNext == PushHit \/ ReturnHits

-----------------------------------------------------------------------------
(* coarse_channel.cpp: construction, data(), mask(), set_data, set_mask,   *)
(* set_device, push_device.  A tensor is [device, holds]; a device is its  *)
(* name, which stands for the pair (device_type, device_id).               *)

cpu == "cpu"
Devices == {"cpu", "cuda:0", "cuda:1"}

\* bland::g_config.check_is_valid_cuda_device: the ids of the usable GPUs
valid_cuda_devices == {"cuda:0"}

\* std::shared_ptr: nullptr
nullptr == 0

\* a default-constructed bland::ndarray
default_ndarray == [device |-> cpu, holds |-> "nothing"]

\* ndarray::to(device)
to(t, d) == [t EXCEPT !.device = d]

\* the member initializers of struct coarse_channel
new_coarse_channel ==
    [_data |-> default_ndarray,
     _mask |-> default_ndarray,
     _device |-> cpu,
     _hits |-> nullptr,
     _integrated_drift_plane |-> nullptr]

\* coarse_channel(std::function data, std::function mask, metadata, number):
\* the channel built, and the loader invocations made in building it
construct_from_loaders(data_loaded, mask_loaded) ==
    [channel |-> [new_coarse_channel EXCEPT !._data = data_loaded,
                                            !._mask = mask_loaded],
     data_loader_calls |-> 1,
     mask_loader_calls |-> 1]

\* coarse_channel(bland::ndarray data, bland::ndarray mask, metadata, number)
construct_from_tensors(d, m) ==
    [new_coarse_channel EXCEPT !._data = d, !._mask = m]

\* a data() that returns the tensor where it is
data_without_migration(c) == [channel |-> c, ret |-> c._data]

\* coarse_channel::data(): the channel after the call and the tensor returned
data(c) ==
    LET moved == IF c._data.device # c._device THEN to(c._data, c._device) ELSE c._data
    IN  [channel |-> [c EXCEPT !._data = moved], ret |-> moved]

\* coarse_channel::mask()
mask(c) ==
    LET moved == IF c._mask.device # c._device THEN to(c._mask, c._device) ELSE c._mask
    IN  [channel |-> [c EXCEPT !._mask = moved], ret |-> moved]

\* coarse_channel::set_data
set_data(c, new_data) ==
    [c EXCEPT !._data = IF new_data.device # c._device THEN to(new_data, c._device)
                        ELSE new_data]

\* coarse_channel::set_mask
set_mask(c, new_mask) ==
    [c EXCEPT !._mask = IF new_mask.device # c._device THEN to(new_mask, c._device)
                        ELSE new_mask]

\* coarse_channel::set_device(dev &): whether it throws, and the channel after
set_device(c, device) ==
    IF device # cpu /\ device \notin valid_cuda_devices
    THEN [throws |-> TRUE, channel |-> c]
    ELSE [throws |-> FALSE, channel |-> [c EXCEPT !._device = device]]

\* coarse_channel::push_device, for a channel without a computed drift plane
push_device(c) == mask(data(c).channel).channel

\* a channel receives at most MaxChannelCalls member calls
MaxChannelCalls == 4

\* what the loaders read from disk
loaded_data == [device |-> cpu, holds |-> "data"]
loaded_mask == [device |-> cpu, holds |-> "mask"]

\* the tensors a caller passes in
CallerTensors == {[device |-> d, holds |-> "caller"] : d \in {"cpu", "cuda:0"}}

Returned(op, value) == [op |-> op, value |-> value]

CcInit ==
    /\ cc = new_coarse_channel
    /\ cc_made = "none"
    /\ loader_calls = [data |-> 0, mask |-> 0]
    /\ accesses = [data |-> 0, mask |-> 0]
    /\ cc_ret = Returned("none", "void")
    /\ cc_calls = 0

\* coarse_channel(scan_metadata, number)
ConstructMetadataOnly ==
    /\ UNCHANGED notCc
    /\ cc_made = "none"
    /\ cc' = new_coarse_channel
    /\ cc_made' = "meta"
    /\ cc_ret' = Returned("construct", "void")
    /\ UNCHANGED <<loader_calls, accesses, cc_calls>>

ConstructFromLoaders ==
    /\ UNCHANGED notCc
    /\ cc_made = "none"
    /\ LET r == construct_from_loaders(loaded_data, loaded_mask)
       IN  /\ cc' = r.channel
           /\ loader_calls' = [data |-> loader_calls.data + r.data_loader_calls,
                               mask |-> loader_calls.mask + r.mask_loader_calls]
    /\ cc_made' = "lazy"
    /\ cc_ret' = Returned("construct", "void")
    /\ UNCHANGED <<accesses, cc_calls>>

ConstructFromTensors ==
    /\ UNCHANGED notCc
    /\ cc_made = "none"
    /\ \E d \in CallerTensors, m \in CallerTensors : cc' = construct_from_tensors(d, m)
    /\ cc_made' = "direct"
    /\ cc_ret' = Returned("construct", "void")
    /\ UNCHANGED <<loader_calls, accesses, cc_calls>>

CallData ==
    /\ UNCHANGED notCc
    /\ cc_made # "none" /\ cc_calls < MaxChannelCalls
    /\ cc' = data(cc).channel
    /\ cc_ret' = Returned("data", data(cc).ret)
    /\ accesses' = [accesses EXCEPT !.data = @ + 1]
    /\ cc_calls' = cc_calls + 1
    /\ UNCHANGED <<cc_made, loader_calls>>

CallMask ==
    /\ UNCHANGED notCc
    /\ cc_made # "none" /\ cc_calls < MaxChannelCalls
    /\ cc' = mask(cc).channel
    /\ cc_ret' = Returned("mask", mask(cc).ret)
    /\ accesses' = [accesses EXCEPT !.mask = @ + 1]
    /\ cc_calls' = cc_calls + 1
    /\ UNCHANGED <<cc_made, loader_calls>>

CallSetData ==
    /\ UNCHANGED notCc
    /\ cc_made # "none" /\ cc_calls < MaxChannelCalls
    /\ \E t \in CallerTensors : cc' = set_data(cc, t)
    /\ cc_ret' = Returned("set_data", "void")
    /\ cc_calls' = cc_calls + 1
    /\ UNCHANGED <<cc_made, loader_calls, accesses>>

CallSetMask ==
    /\ UNCHANGED notCc
    /\ cc_made # "none" /\ cc_calls < MaxChannelCalls
    /\ \E t \in CallerTensors : cc' = set_mask(cc, t)
    /\ cc_ret' = Returned("set_mask", "void")
    /\ cc_calls' = cc_calls + 1
    /\ UNCHANGED <<cc_made, loader_calls, accesses>>

CallSetDevice ==
    /\ UNCHANGED notCc
    /\ cc_made # "none" /\ cc_calls < MaxChannelCalls
    /\ \E d \in Devices :
          /\ cc' = set_device(cc, d).channel
          /\ cc_ret' = Returned("set_device",
                                IF set_device(cc, d).throws THEN "runtime_error" ELSE "void")
    /\ cc_calls' = cc_calls + 1
    /\ UNCHANGED <<cc_made, loader_calls, accesses>>

CallPushDevice ==
    /\ UNCHANGED notCc
    /\ cc_made # "none" /\ cc_calls < MaxChannelCalls
    /\ cc' = push_device(cc)
    /\ cc_ret' = Returned("push_device", "void")
    /\ cc_calls' = cc_calls + 1
    /\ UNCHANGED <<cc_made, loader_calls, accesses>>

CcNext ==
    \/ ConstructMetadataOnly \/ ConstructFromLoaders \/ ConstructFromTensors
    \/ CallData \/ CallMask \/ CallSetData \/ CallSetMask
    \/ CallSetDevice \/ CallPushDevice

\* no channel is in use
CcIdle ==
    /\ cc = new_coarse_channel
    /\ cc_made = "idle"
    /\ loader_calls = [data |-> 0, mask |-> 0]
    /\ accesses = [data |-> 0, mask |-> 0]
    /\ cc_ret = Returned("none", "void")
    /\ cc_calls = 0

-----------------------------------------------------------------------------
(* coarse_channel.cpp: hits(), set_hits, integrated_drift_plane(),          *)
(* set_integrated_drift_plane.  The heap is the sequence of the variant     *)
(* objects made by std::make_shared; a shared_ptr is a position in it.  A   *)
(* variant object is [holds, value]: "function" with the generator's name,  *)
(* or "value" with the list or plane.                                       *)

\* what a generator returns when invoked: the result named after it
invoke(generator) == [made_by |-> generator]

\* std::make_shared<std::variant<...>>(x): the heap after, the pointer is its length
make_shared(h, holds, value) == Append(h, [holds |-> holds, value |-> value])

\* a hits() that returns what the generator computed without caching it
channel_hits_uncached(c, h) ==
    IF c._hits = nullptr
    THEN [throws |-> "logic_error", heap |-> h, invoked |-> 0, ret |-> "none"]
    ELSE IF h[c._hits].holds = "function"
         THEN [throws |-> "no", heap |-> h, invoked |-> 1,
               ret |-> invoke(h[c._hits].value)]
         ELSE [throws |-> "no", heap |-> h, invoked |-> 0, ret |-> h[c._hits].value]

\* coarse_channel::hits() const
channel_hits(c, h) ==
    IF c._hits = nullptr
    THEN [throws |-> "logic_error", heap |-> h, invoked |-> 0, ret |-> "none"]
    ELSE IF h[c._hits].holds = "function"
         THEN LET computed_hits == invoke(h[c._hits].value)
                  h2 == [h EXCEPT ![c._hits] = [holds |-> "value", value |-> computed_hits]]
              IN  [throws |-> "no", heap |-> h2, invoked |-> 1, ret |-> h2[c._hits].value]
         ELSE [throws |-> "no", heap |-> h, invoked |-> 0, ret |-> h[c._hits].value]

\* frequency_drift_plane::set_device
plane_set_device(plane, device) ==
    [made_by |-> plane.made_by, device |-> device]

\* coarse_channel::integrated_drift_plane()
integrated_drift_plane(c, h) ==
    IF c._integrated_drift_plane = nullptr
    THEN [throws |-> "runtime_error", heap |-> h, invoked |-> 0, ret |-> "none"]
    ELSE LET p == c._integrated_drift_plane
         IN  IF h[p].holds = "function"
             THEN LET calculated_plane ==
                          plane_set_device(invoke(h[p].value), c._device)
                  IN  [throws |-> "no",
                       heap |-> [h EXCEPT ![p] = [holds |-> "value",
                                                  value |-> calculated_plane]],
                       invoked |-> 1, ret |-> calculated_plane]
             ELSE LET ddp == plane_set_device(h[p].value, c._device)
                  IN  [throws |-> "no",
                       heap |-> [h EXCEPT ![p] = [holds |-> "value", value |-> ddp]],
                       invoked |-> 0, ret |-> ddp]

\* at most MaxCacheCalls member calls and copies are made
MaxCacheCalls == 4

CacheInit ==
    /\ channels = <<new_coarse_channel>>
    /\ heap = <<>>
    /\ generator_calls = <<>>
    /\ cache_ret = [op |-> "none", on |-> 0, throws |-> "no", value |-> "none", invoked |-> 0]
    /\ cache_calls = 0

\* no cache is in use
CacheIdle ==
    /\ channels = <<>>
    /\ heap = <<>>
    /\ generator_calls = <<>>
    /\ cache_ret = [op |-> "none", on |-> 0, throws |-> "no", value |-> "none", invoked |-> 0]
    /\ cache_calls = 0

\* set_hits(std::function): the generator is named after the variant object
SetHitsGenerator ==
    /\ UNCHANGED notCache
    /\ cache_calls < MaxCacheCalls
    /\ \E i \in 1..Len(channels) :
          /\ heap' = make_shared(heap, "function", Len(heap) + 1)
          /\ channels' = [channels EXCEPT ![i]._hits = Len(heap) + 1]
          /\ cache_ret' = [op |-> "set_hits", on |-> i, throws |-> "no", value |-> "none",
                           invoked |-> 0]
    /\ generator_calls' = Append(generator_calls, 0)
    /\ cache_calls' = cache_calls + 1

\* set_hits(std::list<hit>): a list no generator made (made_by 0)
SetHitsList ==
    /\ UNCHANGED notCache
    /\ cache_calls < MaxCacheCalls
    /\ \E i \in 1..Len(channels) :
          /\ heap' = make_shared(heap, "value", [made_by |-> 0])
          /\ channels' = [channels EXCEPT ![i]._hits = Len(heap) + 1]
          /\ cache_ret' = [op |-> "set_hits", on |-> i, throws |-> "no", value |-> "none",
                           invoked |-> 0]
    /\ generator_calls' = Append(generator_calls, 0)
    /\ cache_calls' = cache_calls + 1

CallHits ==
    /\ UNCHANGED notCache
    /\ cache_calls < MaxCacheCalls
    /\ \E i \in 1..Len(channels) :
          LET r == channel_hits(channels[i], heap)
          IN  /\ heap' = r.heap
              /\ generator_calls' =
                    IF r.invoked = 1
                    THEN [generator_calls EXCEPT ![channels[i]._hits] = @ + 1]
                    ELSE generator_calls
              /\ cache_ret' = [op |-> "hits", on |-> i, throws |-> r.throws,
                               value |-> r.ret, invoked |-> r.invoked]
    /\ cache_calls' = cache_calls + 1
    /\ UNCHANGED channels

\* set_integrated_drift_plane(std::function)
SetPlaneGenerator ==
    /\ UNCHANGED notCache
    /\ cache_calls < MaxCacheCalls
    /\ \E i \in 1..Len(channels) :
          /\ heap' = make_shared(heap, "function", Len(heap) + 1)
          /\ channels' = [channels EXCEPT ![i]._integrated_drift_plane = Len(heap) + 1]
          /\ cache_ret' = [op |-> "set_integrated_drift_plane", on |-> i,
                           throws |-> "no", value |-> "none", invoked |-> 0]
    /\ generator_calls' = Append(generator_calls, 0)
    /\ cache_calls' = cache_calls + 1

CallIntegratedDriftPlane ==
    /\ UNCHANGED notCache
    /\ cache_calls < MaxCacheCalls
    /\ \E i \in 1..Len(channels) :
          LET r == integrated_drift_plane(channels[i], heap)
          IN  /\ heap' = r.heap
              /\ generator_calls' =
                    IF r.invoked = 1
                    THEN [generator_calls EXCEPT
                              ![channels[i]._integrated_drift_plane] = @ + 1]
                    ELSE generator_calls
              /\ cache_ret' = [op |-> "integrated_drift_plane", on |-> i,
                               throws |-> r.throws, value |-> r.ret,
                               invoked |-> r.invoked]
    /\ cache_calls' = cache_calls + 1
    /\ UNCHANGED channels

\* the copy constructor: the shared_ptr members are copied, not what they point to
CopyChannel ==
    /\ UNCHANGED notCache
    /\ cache_calls < MaxCacheCalls
    /\ \E i \in 1..Len(channels) :
          /\ channels' = Append(channels, channels[i])
          /\ cache_ret' = [op |-> "copy", on |-> i, throws |-> "no", value |-> "none",
                           invoked |-> 0]
    /\ cache_calls' = cache_calls + 1
    /\ UNCHANGED <<heap, generator_calls>>

CacheNext ==
    \/ SetHitsGenerator \/ SetHitsList \/ CallHits
    \/ SetPlaneGenerator \/ CallIntegratedDriftPlane \/ CopyChannel

-----------------------------------------------------------------------------
(* coarse_channel::hits() called by several threads on channels that share  *)
(* one variant.  hits() takes no lock, so each access of the variant is a   *)
(* step of its own, and the assignment *_hits = computed_hits and the copy  *)
(* made by return std::get<list> each take a begin and an end step.         *)
(* An access that overlaps another thread's assignment is a data race: what *)
(* it reads or leaves behind is undefined.                                  *)

\* the threads calling hits()
MaxThreads == 2
Threads == 1..MaxThreads

\* a write by a thread other than t is in progress
other_writing(v, t) == v.writer # 0 /\ v.writer # t

\* what std::holds_alternative<function> can answer for thread t
holds_function_outcomes(v, t) ==
    IF other_writing(v, t) THEN BOOLEAN ELSE {v.holds = "function"}

\* what the returned copy of the list can be for a thread: complete, or, when
\* the variant was damaged or the thread's accesses raced, also partial
get_outcomes(v, raced) ==
    IF raced \/ v.damaged THEN {"complete", "partial"} ELSE {"complete"}

ThInit ==
    /\ shared_variant \in {[holds |-> h, writer |-> 0, damaged |-> FALSE]
                             : h \in {"function", "list"}}
    /\ th_pc = [t \in Threads |-> "check_null"]
    /\ th_raced = [t \in Threads |-> FALSE]
    /\ th_ret = [t \in Threads |-> "none"]

\* no thread is running
ThIdle ==
    /\ shared_variant = [holds |-> "list", writer |-> 0, damaged |-> FALSE]
    /\ th_pc = [t \in Threads |-> "idle"]
    /\ th_raced = [t \in Threads |-> FALSE]
    /\ th_ret = [t \in Threads |-> "none"]

\* if (_hits == nullptr): the pointer is set
CheckNull(t) ==
    /\ UNCHANGED notTh
    /\ th_pc[t] = "check_null"
    /\ th_pc' = [th_pc EXCEPT ![t] = "holds_alternative"]
    /\ UNCHANGED <<shared_variant, th_raced, th_ret>>

\* if std::holds_alternative<std::function<...>> of the variant
HoldsAlternative(t) ==
    /\ UNCHANGED notTh
    /\ th_pc[t] = "holds_alternative"
    /\ \E f \in holds_function_outcomes(shared_variant, t) :
          th_pc' = [th_pc EXCEPT ![t] = IF f THEN "invoke" ELSE "get"]
    /\ th_raced' = [th_raced EXCEPT ![t] = @ \/ other_writing(shared_variant, t)]
    /\ UNCHANGED <<shared_variant, th_ret>>

\* auto computed_hits = std::get<function> of the variant, invoked
InvokeGenerator(t) ==
    /\ UNCHANGED notTh
    /\ th_pc[t] = "invoke"
    /\ th_pc' = [th_pc EXCEPT ![t] = "assign"]
    /\ th_raced' = [th_raced EXCEPT ![t] = @ \/ other_writing(shared_variant, t)]
    /\ UNCHANGED <<shared_variant, th_ret>>

\* *_hits = computed_hits begins: the function is destroyed
BeginAssign(t) ==
    /\ UNCHANGED notTh
    /\ th_pc[t] = "assign"
    /\ shared_variant' =
          [holds |-> "list", writer |-> t,
           damaged |-> shared_variant.damaged \/ other_writing(shared_variant, t)]
    /\ th_raced' = [u \in Threads |->
                       th_raced[u] \/ (u # t /\ th_pc[u] = "copying")]
    /\ th_pc' = [th_pc EXCEPT ![t] = "assigning"]
    /\ UNCHANGED th_ret

\* *_hits = computed_hits ends: the list is in place
EndAssign(t) ==
    /\ UNCHANGED notTh
    /\ th_pc[t] = "assigning"
    /\ shared_variant' =
          [shared_variant EXCEPT !.writer = IF @ = t THEN 0 ELSE @]
    /\ th_raced' = [u \in Threads |->
                       th_raced[u] \/ (u # t /\ th_pc[u] = "copying")]
    /\ th_pc' = [th_pc EXCEPT ![t] = "get"]
    /\ UNCHANGED th_ret

\* return std::get<std::list<hit>> of the variant begins copying the list
BeginGet(t) ==
    /\ UNCHANGED notTh
    /\ th_pc[t] = "get"
    /\ th_raced' = [th_raced EXCEPT ![t] = @ \/ other_writing(shared_variant, t)]
    /\ th_pc' = [th_pc EXCEPT ![t] = "copying"]
    /\ UNCHANGED <<shared_variant, th_ret>>

\* the copy is complete and returned
EndGet(t) ==
    /\ UNCHANGED notTh
    /\ th_pc[t] = "copying"
    /\ \E r \in get_outcomes(shared_variant,
                             th_raced[t] \/ other_writing(shared_variant, t)) :
          th_ret' = [th_ret EXCEPT ![t] = r]
    /\ th_pc' = [th_pc EXCEPT ![t] = "done"]
    /\ UNCHANGED <<shared_variant, th_raced>>

ThNext ==
    \E t \in Threads :
        \/ CheckNull(t) \/ HoldsAlternative(t) \/ InvokeGenerator(t)
        \/ BeginAssign(t) \/ EndAssign(t) \/ BeginGet(t) \/ EndGet(t)

-----------------------------------------------------------------------------
(* scan: construction from a data source with an explicit number of fine    *)
(* channels per coarse channel, the coarse-channel cache, the transform     *)
(* pipeline, and scan::hits().  A channel is                                *)
(*   [_coarse_channel_number, stages, _hits]                                *)
(* where stages is the history of the transforms applied to it and _hits is *)
(* <<>> for a null pointer and <<list>> for a pointer to a list of hits.  A *)
(* hit is [channel, id, found_after, filtered]: hit_search finds one hit    *)
(* (id 0) in a channel and records the stages the channel had passed;       *)
(* the hits a caller sets have ids 1, 2, ...                                *)
(* infer_number_coarse_channels (num_fine_channels_per_coarse = 0) is not   *)
(* modelled.                                                                *)

\* the fine channels of a data source's spectrogram
SourceChannels == {4, 6}

\* the values given for num_fine_channels_per_coarse
FinePerCoarse == {2, 4}

\* IScanDataSource::get_data_shape: [time, feed, freq] with two time steps,
\* or a shape that lacks the feed dimension
SourceShapes(nchans) == {<<2, 1, nchans>>, <<2, nchans>>}

\* the data sources: the header's nchans is the spectrogram's or is absent
\* (get_nchans().value_or(0))
Sources ==
    UNION {{[data_shape |-> shape, nchans |-> header,
             reads |-> [shape |-> 0, data |-> 0, mask |-> 0,
                        data_at |-> <<>>, mask_at |-> <<>>]]
              : shape \in SourceShapes(n), header \in {0, n}}
           : n \in SourceChannels}

\* the transforms registered by excise_dc(scan), hit_search(scan) and
\* filter_hits(scan)
Stages == {"excise_dc", "hit_search", "filter_hits"}

\* at most MaxStages transforms are registered, at most MaxScanCalls calls made
MaxStages == 2
MaxScanCalls == 2

\* what an operation did: the exception that left it ("none" when it
\* returned), the scan and the data source after it, the value returned and
\* what it printed
Result(throws, s, src, ret, printed) ==
    [throws |-> throws, scan |-> s, source |-> src, ret |-> ret, printed |-> printed]

\* scan::scan(data_source, num_fine_channels_per_coarse), for
\* num_fine_channels_per_coarse # 0
construct_scan(src, num_fine_channels_per_coarse) ==
    LET data_shape == src.data_shape
        header == src.nchans
        nchans == IF header = 0 /\ Len(data_shape) > 2 THEN data_shape[3] ELSE header
        ntsteps == IF Len(data_shape) = 3 THEN data_shape[1] ELSE 0
        number == nchans \div num_fine_channels_per_coarse
        s == [_meta |-> [nchans |-> nchans, ntsteps |-> ntsteps],
              _num_coarse_channels |-> number,
              _fine_channels_per_coarse |-> num_fine_channels_per_coarse,
              _coarse_channel_offset |-> 0,
              _coarse_channels |-> <<>>,
              _coarse_channel_pipeline |-> <<>>]
    IN  Result("none", s, [src EXCEPT !.reads.shape = @ + 1], <<>>,
               (IF Len(data_shape) = 3 THEN <<>> ELSE <<"ERROR">>)
               \o (IF number * num_fine_channels_per_coarse # nchans
                   THEN <<"WARN">> ELSE <<>>))

\* a scan made from a map has no data source (_data_source is null); calling
\* through it is undefined, which ReadOutcomes covers as a source without a
\* data shape
null_data_source ==
    [data_shape |-> <<>>, nchans |-> 0, reads |-> [shape |-> 0, data |-> 0, mask |-> 0,
                        data_at |-> <<>>, mask_at |-> <<>>]]

\* a map holds channels 0 .. n-1 for n <= MaxMapChannels, and the list given
\* to a channel's set_hits holds at most MaxChannelHits hits
MaxMapChannels == 2
MaxChannelHits == 2

\* the k-th hit of the list given to set_hits of channel g
set_hit(g, k) == [channel |-> g, id |-> k, found_after |-> <<>>, filtered |-> FALSE]

\* coarse_channel(metadata) followed by set_hits(list of n hits), as channel g
channel_with_hits(g, n) ==
    [_coarse_channel_number |-> g,
     stages |-> <<>>,
     _hits |-> << [k \in 1..n |-> set_hit(g, k)] >>]

\* the maps: lengths[g + 1] is the number of hits set on channel g
ChannelMaps ==
    UNION {{[g \in 0..(n - 1) |-> channel_with_hits(g, lengths[g + 1])]
              : lengths \in [1..n -> 0..MaxChannelHits]}
           : n \in 0..MaxMapChannels}

\* scan::scan(std::map<int, std::shared_ptr<coarse_channel>>): at(0) throws
\* for a map without channel 0; each modelled channel has 2 fine channels
\* and 2 time steps; _fine_channels_per_coarse is left unassigned and is
\* read only by reads that miss the cache
construct_scan_from_map(coarse_channels) ==
    IF 0 \notin DOMAIN coarse_channels
    THEN Result("out_of_range",
                [_meta |-> [nchans |-> 0, ntsteps |-> 0],
                 _num_coarse_channels |-> 0,
                 _fine_channels_per_coarse |-> 0,
                 _coarse_channel_offset |-> 0,
                 _coarse_channels |-> coarse_channels,
                 _coarse_channel_pipeline |-> <<>>],
                null_data_source, <<>>, <<>>)
    ELSE LET number == Cardinality(DOMAIN coarse_channels)
         IN  Result("none",
                    [_meta |-> [nchans |-> 2 * number, ntsteps |-> 2],
                     _num_coarse_channels |-> number,
                     _fine_channels_per_coarse |-> 0,
                     _coarse_channel_offset |-> 0,
                     _coarse_channels |-> coarse_channels,
                     _coarse_channel_pipeline |-> <<>>],
                    null_data_source, <<>>, <<>>)

\* scan::add_coarse_channel_transform
add_coarse_channel_transform(s, stage) ==
    [s EXCEPT !._coarse_channel_pipeline = Append(@, stage)]

\* coarse_channel::has_hits
has_hits(c) == Len(c._hits) > 0

\* one registered transform applied to a channel: excise_dc returns the
\* channel with new data; hit_search sets the list of the hits found in the
\* channel as it stands; filter_hits(coarse_channel) throws when no hits are
\* set and sets the filtered list otherwise
transform(stage, c) ==
    LET applied == [c EXCEPT !.stages = Append(@, stage)]
    IN  CASE stage = "excise_dc" -> [throws |-> "none", channel |-> applied]
          [] stage = "hit_search" ->
                [throws |-> "none",
                 channel |-> [applied EXCEPT !._hits =
                                 << <<[channel |-> c._coarse_channel_number,
                                       id |-> 0,
                                       found_after |-> c.stages,
                                       filtered |-> FALSE]>> >>]]
          [] stage = "filter_hits" ->
                IF has_hits(c)
                THEN [throws |-> "none",
                      channel |-> [applied EXCEPT !._hits =
                                      <<[k \in DOMAIN c._hits[1] |->
                                           [c._hits[1][k] EXCEPT !.filtered = TRUE]]>>]]
                ELSE [throws |-> "invalid_argument", channel |-> c]

\* a loop over the pipeline that runs from its last transform to its first
RECURSIVE run_pipeline_backwards(_, _)
run_pipeline_backwards(pipeline, c) ==
    IF pipeline = <<>> THEN [throws |-> "none", channel |-> c]
    ELSE LET r == transform(pipeline[Len(pipeline)], c)
         IN  IF r.throws # "none" THEN r
             ELSE run_pipeline_backwards(SubSeq(pipeline, 1, Len(pipeline) - 1),
                                         r.channel)

\* for (auto &transform : _coarse_channel_pipeline)
\*     transformed_cc = transform.transform(transformed_cc);
RECURSIVE run_pipeline(_, _)
run_pipeline(pipeline, c) ==
    IF pipeline = <<>> THEN [throws |-> "none", channel |-> c]
    ELSE LET r == transform(Head(pipeline), c)
         IN  IF r.throws # "none" THEN r
             ELSE run_pipeline(Tail(pipeline), r.channel)

\* what depends on the build and on the data source in one read:
\*  index: data_count[2] = ... on a shape of fewer than 3 dimensions writes
\*         past the vector's end, which may pass unnoticed or end the process;
\*  read:  read_data for a window that is not inside the spectrogram returns
\*         or throws, as the data source implements it
ReadOutcomes == [index : {"proceeds", "aborts"}, read : {"returns", "throws"}]

\* the window [start, start + count) lies inside the frequency axis
window_in_source(data_shape, start, count) ==
    Len(data_shape) = 3 /\ start + count <= data_shape[3]

\* the ReadOutcomes that a read of one index can tell apart
read_outcomes(s, src, coarse_channel_index) ==
    LET global_offset_in_file == coarse_channel_index + s._coarse_channel_offset
        cached == global_offset_in_file \in DOMAIN s._coarse_channels
        inside == window_in_source(src.data_shape,
                                   s._fine_channels_per_coarse * global_offset_in_file,
                                   s._fine_channels_per_coarse)
    IN  {o \in ReadOutcomes :
            /\ (cached \/ Len(src.data_shape) >= 3) => o.index = "proceeds"
            /\ (cached \/ inside) => o.read = "returns"}

\* one more call counted for the window of channel g
counted_at(calls_at, g, calls) ==
    [x \in DOMAIN calls_at \cup {g} |->
        (IF x \in DOMAIN calls_at THEN calls_at[x] ELSE 0) + (IF x = g THEN calls ELSE 0)]

\* scan::read_coarse_channel(coarse_channel_index)
read_coarse_channel(s, src, coarse_channel_index, o) ==
    IF coarse_channel_index < 0 \/ coarse_channel_index > s._num_coarse_channels
    THEN Result("out_of_range", s, src, <<>>, <<>>)
    ELSE
      LET global_offset_in_file == coarse_channel_index + s._coarse_channel_offset
          cached == global_offset_in_file \in DOMAIN s._coarse_channels
          src_shape == [src EXCEPT !.reads.shape = @ + 1]
          start == s._fine_channels_per_coarse * global_offset_in_file
          built == construct_from_loaders(loaded_data, loaded_mask)
          src_read ==
              [src_shape EXCEPT
                 !.reads.data = @ + built.data_loader_calls,
                 !.reads.mask = @ + built.mask_loader_calls,
                 !.reads.data_at = counted_at(@, global_offset_in_file,
                                              built.data_loader_calls),
                 !.reads.mask_at = counted_at(@, global_offset_in_file,
                                              built.mask_loader_calls)]
          new_coarse == [_coarse_channel_number |-> global_offset_in_file,
                         stages |-> <<>>,
                         _hits |-> <<>>]
          s_cached == IF cached THEN s
                      ELSE [s EXCEPT !._coarse_channels =
                                        @ @@ (global_offset_in_file :> new_coarse)]
          piped == run_pipeline(s._coarse_channel_pipeline,
                                s_cached._coarse_channels[global_offset_in_file])
      IN  IF ~cached /\ Len(src.data_shape) < 3 /\ o.index = "aborts"
          THEN Result("abort", s, src_shape, <<>>, <<>>)
          ELSE IF /\ ~cached
                  /\ ~window_in_source(src.data_shape, start,
                                       s._fine_channels_per_coarse)
                  /\ o.read = "throws"
          THEN Result("data_source_error", s,
                      [src_shape EXCEPT
                         !.reads.data = @ + 1,
                         !.reads.data_at = counted_at(@, global_offset_in_file, 1)],
                      <<>>, <<>>)
          ELSE Result(piped.throws, s_cached, IF cached THEN src ELSE src_read,
                      IF piped.throws = "none" THEN <<piped.channel>> ELSE <<>>,
                      <<>>)

\* a peak that loads the channel when it is not in the cache
peak_coarse_channel_that_loads(s, src, coarse_channel_index) ==
    read_coarse_channel(s, src, coarse_channel_index,
                        [index |-> "proceeds", read |-> "returns"])

\* scan::peak_coarse_channel(coarse_channel_index): ret is <<>> for nullptr
peak_coarse_channel(s, src, coarse_channel_index) ==
    IF coarse_channel_index < 0 \/ coarse_channel_index > s._num_coarse_channels
    THEN Result("out_of_range", s, src, <<>>, <<>>)
    ELSE
      LET global_offset_in_file == coarse_channel_index + s._coarse_channel_offset
      IN  IF global_offset_in_file \in DOMAIN s._coarse_channels
          THEN LET piped == run_pipeline(s._coarse_channel_pipeline,
                                         s._coarse_channels[global_offset_in_file])
               IN  Result(piped.throws, s, src,
                          IF piped.throws = "none" THEN <<piped.channel>> ELSE <<>>,
                          <<>>)
          ELSE Result("none", s, src, <<>>, <<>>)

\* coarse_channel::hits() of a channel whose list, if set, is computed
hits_of(c) ==
    IF c._hits = <<>> THEN [throws |-> "logic_error", ret |-> <<>>]
    ELSE [throws |-> "none", ret |-> c._hits[1]]

\* scan::hits(): the loop from cc_index on; choices gives each index its
\* ReadOutcomes
RECURSIVE hits_from(_, _, _, _, _, _)
hits_from(s, src, cc_index, all_hits, printed, choices) ==
    IF cc_index >= s._num_coarse_channels
    THEN Result("none", s, src, all_hits, printed)
    ELSE LET r == read_coarse_channel(s, src, cc_index, choices[cc_index])
         IN  IF r.throws # "none"
             THEN Result(r.throws, r.scan, r.source, <<>>, printed)
             ELSE LET this_channel_hits == hits_of(r.ret[1])
                  IN  IF this_channel_hits.throws = "logic_error"
                      THEN \* catch (const std::logic_error &e): print WARN
                           hits_from(r.scan, r.source, cc_index + 1, all_hits,
                                     Append(printed, "WARN"), choices)
                      ELSE hits_from(r.scan, r.source, cc_index + 1,
                                     all_hits \o this_channel_hits.ret,
                                     printed, choices)

\* the elements of a sequence, last first
Reversed(q) == [k \in 1..Len(q) |-> q[Len(q) + 1 - k]]

\* a scan::hits() that returns the hits it collected last first
scan_hits_last_first(s, src, choices) ==
    LET r == hits_from(s, src, 0, <<>>, <<>>, choices)
    IN  [r EXCEPT !.ret = Reversed(@)]

\* scan::hits()
scan_hits(s, src, choices) == hits_from(s, src, 0, <<>>, <<>>, choices)

\* what a member call did, as the model records it
Called(op, argument, was_cached, r) ==
    [op |-> op, index |-> argument, was_cached |-> was_cached,
     throws |-> r.throws, ret |-> r.ret, printed |-> r.printed]

no_call == [op |-> "none", index |-> 0, was_cached |-> FALSE,
            throws |-> "none", ret |-> <<>>, printed |-> <<>>]

ScInit ==
    /\ sc_source \in Sources
    /\ sc_scan = [_meta |-> [nchans |-> 0, ntsteps |-> 0],
                  _num_coarse_channels |-> 0,
                  _fine_channels_per_coarse |-> 0,
                  _coarse_channel_offset |-> 0,
                  _coarse_channels |-> <<>>,
                  _coarse_channel_pipeline |-> <<>>]
    /\ sc_made = "none"
    /\ sc_first_read = <<>>
    /\ sc_ret = no_call
    /\ sc_calls = 0

\* no scan is in use
ScIdle ==
    /\ sc_source = [data_shape |-> <<>>, nchans |-> 0,
                    reads |-> [shape |-> 0, data |-> 0, mask |-> 0,
                        data_at |-> <<>>, mask_at |-> <<>>]]
    /\ sc_scan = [_meta |-> [nchans |-> 0, ntsteps |-> 0],
                  _num_coarse_channels |-> 0,
                  _fine_channels_per_coarse |-> 0,
                  _coarse_channel_offset |-> 0,
                  _coarse_channels |-> <<>>,
                  _coarse_channel_pipeline |-> <<>>]
    /\ sc_made = "idle"
    /\ sc_first_read = <<>>
    /\ sc_ret = no_call
    /\ sc_calls = 0

\* the history of first reads after a call that left the cache as s has it
first_reads_after(s) ==
    [g \in DOMAIN s._coarse_channels |->
        IF g \in DOMAIN sc_first_read THEN sc_first_read[g]
        ELSE Len(s._coarse_channel_pipeline)]

\* scan(data_source, num_fine_channels_per_coarse)
ConstructScan ==
    /\ UNCHANGED notSc
    /\ sc_made = "none"
    /\ \E num_fine_channels_per_coarse \in FinePerCoarse :
          LET r == construct_scan(sc_source, num_fine_channels_per_coarse)
          IN  /\ sc_scan' = r.scan
              /\ sc_source' = r.source
              /\ sc_made' = IF r.throws = "none" THEN "made" ELSE "failed"
              /\ sc_ret' = Called("scan", num_fine_channels_per_coarse, FALSE, r)
    /\ UNCHANGED <<sc_first_read, sc_calls>>

\* scan(coarse_channels)
ConstructScanFromMap ==
    /\ UNCHANGED notSc
    /\ sc_made = "none"
    /\ \E coarse_channels \in ChannelMaps :
          LET r == construct_scan_from_map(coarse_channels)
          IN  /\ sc_scan' = r.scan
              /\ sc_source' = r.source
              /\ sc_made' = IF r.throws = "none" THEN "made" ELSE "failed"
              /\ sc_first_read' = IF r.throws = "none"
                                  THEN [g \in DOMAIN coarse_channels |-> 0]
                                  ELSE sc_first_read
              /\ sc_ret' = Called("scan", Cardinality(DOMAIN coarse_channels),
                                  FALSE, r)
    /\ UNCHANGED sc_calls

\* scan.add_coarse_channel_transform(transform, description)
AddCoarseChannelTransform ==
    /\ UNCHANGED notSc
    /\ sc_made = "made"
    /\ Len(sc_scan._coarse_channel_pipeline) < MaxStages
    /\ \E stage \in Stages :
          sc_scan' = add_coarse_channel_transform(sc_scan, stage)
    /\ UNCHANGED <<sc_source, sc_made, sc_first_read, sc_ret, sc_calls>>

\* scan.read_coarse_channel(coarse_channel_index)
ReadCoarseChannel ==
    /\ UNCHANGED notSc
    /\ sc_made = "made"
    /\ sc_calls < MaxScanCalls
    /\ \E coarse_channel_index \in -1..(sc_scan._num_coarse_channels + 1) :
        \E o \in read_outcomes(sc_scan, sc_source, coarse_channel_index) :
          LET r == read_coarse_channel(sc_scan, sc_source, coarse_channel_index, o)
          IN  /\ sc_scan' = r.scan
              /\ sc_source' = r.source
              /\ sc_made' = IF r.throws = "abort" THEN "aborted" ELSE "made"
              /\ sc_first_read' = first_reads_after(r.scan)
              /\ sc_ret' = Called("read_coarse_channel", coarse_channel_index,
                                  coarse_channel_index \in DOMAIN sc_scan._coarse_channels,
                                  r)
    /\ sc_calls' = sc_calls + 1

\* scan.hits()
ScanHits ==
    /\ UNCHANGED notSc
    /\ sc_made = "made"
    /\ sc_calls < MaxScanCalls
    /\ \E choices \in [0..(sc_scan._num_coarse_channels - 1) -> ReadOutcomes] :
          /\ \A i \in DOMAIN choices :
                choices[i] \in read_outcomes(sc_scan, sc_source, i)
          /\ LET r == scan_hits(sc_scan, sc_source, choices)
             IN  /\ sc_scan' = r.scan
                 /\ sc_source' = r.source
                 /\ sc_made' = IF r.throws = "abort" THEN "aborted" ELSE "made"
                 /\ sc_first_read' = first_reads_after(r.scan)
                 /\ sc_ret' = Called("hits", 0, FALSE, r)
    /\ sc_calls' = sc_calls + 1

\* scan.peak_coarse_channel(coarse_channel_index)
PeakCoarseChannel ==
    /\ UNCHANGED notSc
    /\ sc_made = "made"
    /\ sc_calls < MaxScanCalls
    /\ \E coarse_channel_index \in -1..(sc_scan._num_coarse_channels + 1) :
          LET r == peak_coarse_channel(sc_scan, sc_source, coarse_channel_index)
          IN  /\ sc_scan' = r.scan
              /\ sc_source' = r.source
              /\ sc_first_read' = first_reads_after(r.scan)
              /\ sc_ret' = Called("peak_coarse_channel", coarse_channel_index,
                                  coarse_channel_index \in DOMAIN sc_scan._coarse_channels,
                                  r)
    /\ sc_calls' = sc_calls + 1
    /\ UNCHANGED sc_made

ScNext ==
    \/ ConstructScan
    \/ AddCoarseChannelTransform
    \/ ReadCoarseChannel
    \/ ScanHits

\* reads, peaks and hits() in any order
ScNextWithPeak ==
    \/ ConstructScan
    \/ AddCoarseChannelTransform
    \/ ReadCoarseChannel
    \/ PeakCoarseChannel
    \/ ScanHits

\* the scan is made from a map of channels
ScInitFromMap ==
    /\ sc_source = null_data_source
    /\ sc_scan = [_meta |-> [nchans |-> 0, ntsteps |-> 0],
                  _num_coarse_channels |-> 0,
                  _fine_channels_per_coarse |-> 0,
                  _coarse_channel_offset |-> 0,
                  _coarse_channels |-> <<>>,
                  _coarse_channel_pipeline |-> <<>>]
    /\ sc_made = "none"
    /\ sc_first_read = <<>>
    /\ sc_ret = no_call
    /\ sc_calls = 0

ScNextFromMap ==
    \/ ConstructScanFromMap
    \/ AddCoarseChannelTransform
    \/ ReadCoarseChannel
    \/ ScanHits

-----------------------------------------------------------------------------
(* observation_target and cadence: validate_scan_consistency and the two    *)
(* getters that depend on it.  A scan is [fch1, foff, nchans,               *)
(* _num_coarse_channels] with fch1 and foff in Hz; the tolerance 1e-6 MHz   *)
(* of the comparison is 1 Hz.                                               *)

\* 1e-6 MHz, in Hz
tolerance_Hz == 1

\* a reference scan and scans that differ from it in one field
reference_scan == [fch1 |-> 1000, foff |-> -3, nchans |-> 4, _num_coarse_channels |-> 2]
TargetScans ==
    {reference_scan,
     [reference_scan EXCEPT !.fch1 = 1002],
     [reference_scan EXCEPT !.foff = -5],
     [reference_scan EXCEPT !.nchans = 6, !._num_coarse_channels = 3]}

\* a target holds at most MaxTargetScans scans; a cadence at most two targets
MaxTargetScans == 2
Targets == UNION {[1..n -> TargetScans] : n \in 0..MaxTargetScans}
Cadences == {<<>>} \cup {<<a>> : a \in Targets} \cup (Targets \X Targets)

\* the frequencies asked for, Hz
Frequencies == {1000, 994}

\* the condition of the if inside both validation loops
reported_as_mismatch(s, fch1, foff, nchans) ==
    \/ Abs(s.fch1 - fch1) < tolerance_Hz
    \/ Abs(s.foff - foff) < tolerance_Hz
    \/ s.nchans # nchans

\* observation_target::validate_scan_consistency
target_validate_scan_consistency(scans) ==
    IF scans = <<>> THEN TRUE
    ELSE \A k \in DOMAIN scans :
            ~reported_as_mismatch(scans[k], scans[1].fch1, scans[1].foff,
                                  scans[1].nchans)

\* the observations of a cadence that hold a scan
with_scans(observations) == {k \in DOMAIN observations : observations[k] # <<>>}

\* the first observation that holds a scan
first_with_scans(observations) ==
    CHOOSE k \in with_scans(observations) :
        \A j \in with_scans(observations) : k <= j

\* cadence::validate_scan_consistency
cadence_validate_scan_consistency(observations) ==
    IF with_scans(observations) = {} THEN TRUE
    ELSE LET template == observations[first_with_scans(observations)][1]
         IN  \A k \in DOMAIN observations : \A j \in DOMAIN observations[k] :
                ~reported_as_mismatch(observations[k][j], template.fch1,
                                      template.foff, template.nchans)

\* floor(p / q) for q # 0
FloorDiv(p, q) == IF q > 0 THEN p \div q ELSE (-p) \div (-q)

\* scan::get_coarse_channel_with_frequency, in exact arithmetic
scan_get_coarse_channel_with_frequency(s, frequency) ==
    FloorDiv((frequency - s.fch1) * s._num_coarse_channels, s.foff * s.nchans)

\* what a call did: the exception that left it, or the value returned
Threw(exception) == [throws |-> exception, value |-> 0]
Gave(value) == [throws |-> "none", value |-> value]

\* _scans[0] of an empty vector is undefined: the call may end the process or
\* return what it finds there
UndefinedElement == {Threw("abort"), Gave(0), Gave(7)}

\* observation_target::get_number_coarse_channels: the possible outcomes
target_get_number_coarse_channels(scans) ==
    IF target_validate_scan_consistency(scans)
    THEN IF scans = <<>> THEN UndefinedElement
         ELSE {Gave(scans[1]._num_coarse_channels)}
    ELSE {Threw("runtime_error")}

\* observation_target::get_coarse_channel_with_frequency
target_get_coarse_channel_with_frequency(scans, frequency) ==
    IF target_validate_scan_consistency(scans)
    THEN IF scans = <<>> THEN UndefinedElement
         ELSE {Gave(scan_get_coarse_channel_with_frequency(scans[1], frequency))}
    ELSE {Threw("runtime_error")}

\* cadence::get_number_coarse_channels
cadence_get_number_coarse_channels(observations) ==
    IF /\ cadence_validate_scan_consistency(observations)
       /\ with_scans(observations) # {}
    THEN Gave(observations[first_with_scans(observations)][1]._num_coarse_channels)
    ELSE Threw("runtime_error")

\* cadence::get_coarse_channel_with_frequency
cadence_get_coarse_channel_with_frequency(observations, frequency) ==
    IF /\ cadence_validate_scan_consistency(observations)
       /\ with_scans(observations) # {}
    THEN Gave(scan_get_coarse_channel_with_frequency(
                 observations[first_with_scans(observations)][1], frequency))
    ELSE Threw("runtime_error")

\* the record of a call: on = 0 for the cadence, k for its k-th target
VcCalled(op, on, outcome) ==
    [op |-> op, on |-> on, throws |-> outcome.throws, value |-> outcome.value]

VcInit ==
    /\ vc_cadence \in Cadences
    /\ vc_ret = [op |-> "none", on |-> 0, throws |-> "none", value |-> 0]

\* no cadence is being validated
VcIdle ==
    /\ vc_cadence = <<>>
    /\ vc_ret = [op |-> "idle", on |-> 0, throws |-> "none", value |-> 0]

TargetValidate ==
    /\ UNCHANGED notVc
    /\ vc_ret.op # "idle"
    /\ \E k \in DOMAIN vc_cadence :
          vc_ret' = VcCalled("validate_scan_consistency", k,
                             Gave(target_validate_scan_consistency(vc_cadence[k])))
    /\ UNCHANGED vc_cadence

CadenceValidate ==
    /\ UNCHANGED notVc
    /\ vc_ret.op # "idle"
    /\ vc_ret' = VcCalled("validate_scan_consistency", 0,
                          Gave(cadence_validate_scan_consistency(vc_cadence)))
    /\ UNCHANGED vc_cadence

TargetGetNumberCoarseChannels ==
    /\ UNCHANGED notVc
    /\ vc_ret.op # "idle"
    /\ \E k \in DOMAIN vc_cadence :
       \E outcome \in target_get_number_coarse_channels(vc_cadence[k]) :
          vc_ret' = VcCalled("get_number_coarse_channels", k, outcome)
    /\ UNCHANGED vc_cadence

CadenceGetNumberCoarseChannels ==
    /\ UNCHANGED notVc
    /\ vc_ret.op # "idle"
    /\ vc_ret' = VcCalled("get_number_coarse_channels", 0,
                          cadence_get_number_coarse_channels(vc_cadence))
    /\ UNCHANGED vc_cadence

TargetGetCoarseChannelWithFrequency ==
    /\ UNCHANGED notVc
    /\ vc_ret.op # "idle"
    /\ \E k \in DOMAIN vc_cadence, frequency \in Frequencies :
       \E outcome \in target_get_coarse_channel_with_frequency(vc_cadence[k],
                                                               frequency) :
          vc_ret' = VcCalled("get_coarse_channel_with_frequency", k, outcome)
    /\ UNCHANGED vc_cadence

CadenceGetCoarseChannelWithFrequency ==
    /\ UNCHANGED notVc
    /\ vc_ret.op # "idle"
    /\ \E frequency \in Frequencies :
          vc_ret' = VcCalled("get_coarse_channel_with_frequency", 0,
                             cadence_get_coarse_channel_with_frequency(vc_cadence,
                                                                       frequency))
    /\ UNCHANGED vc_cadence

VcNext ==
    \/ TargetValidate
    \/ CadenceValidate
    \/ TargetGetNumberCoarseChannels
    \/ CadenceGetNumberCoarseChannels
    \/ TargetGetCoarseChannelWithFrequency
    \/ CadenceGetCoarseChannelWithFrequency

-----------------------------------------------------------------------------
(* distance_func called on one pair of hits of two scans *)

\* the drift rates of the two hits lie within MaxDrift Hz/s
MaxDrift == 3

\* a hit of the scan that starts at t, f Hz from the band's start, drifting
\* at dr Hz/s
DistanceHit(t, f, dr) == ScanHit(t, 10, f, 0, dr)

DmInit ==
    /\ \E dr \in -MaxDrift..MaxDrift : dm_a = DistanceHit(0, 0, dr)
    /\ \E dr \in -MaxDrift..MaxDrift, f \in {0, 100} : dm_b = DistanceHit(200, f, dr)
    /\ dm_ret = [called |-> FALSE, distance |-> 0, drift_term |-> 0]

\* no distance is being computed
DmIdle ==
    /\ dm_a = DistanceHit(0, 0, 0)
    /\ dm_b = DistanceHit(0, 0, 0)
    /\ dm_ret = [called |-> FALSE, distance |-> -1, drift_term |-> 0]

\* distance_func(a, b)
CallDistanceFunc ==
    /\ UNCHANGED notDm
    /\ dm_ret.distance # -1
    /\ ~dm_ret.called
    /\ dm_ret' = [called |-> TRUE,
                  distance |-> distance_func(dm_a, dm_b),
                  drift_term |-> drift_error_term(dm_a, dm_b)]
    /\ UNCHANGED <<dm_a, dm_b>>

DmNext == CallDistanceFunc

-----------------------------------------------------------------------------
(* infer_number_coarse_channels (part_003)                                  *)
(*                                                                          *)
(* foff is held in hundredths and tsamp in units of 1e-8, so that every     *)
(* resolution of the table and the tolerance .1 are integers.               *)

FoffUnits == 100
TsampUnits == 100000000

\* known_channelizations: <<fine channels per coarse, freq_res, time_res>>
known_channelizations ==
    << <<1033216, 284, 1798000000>>,
       <<8, 36621000, 34953>>,
       <<1024, 286000, 106000000>>,
       <<999424, 293, 1740000000>>,
       <<8, 36621000, 34953>>,
       <<1024, 286000, 102000000>>,
       <<1048576, 279, 1825000000>>,
       <<8, 36621000, 34953>>,
       <<1024, 286000, 107000000>> >>

\* the test of one table entry
matches_channelization(channelization, number_fine_channels, foff, tsamp) ==
    LET fine_channels_per_coarse == channelization[1]
        num_coarse_channels == number_fine_channels \div fine_channels_per_coarse
    IN  /\ num_coarse_channels * fine_channels_per_coarse = number_fine_channels
        /\ Abs(Abs(foff) - channelization[2]) < FoffUnits \div 10
        /\ Abs(Abs(tsamp) - channelization[3]) < TsampUnits \div 10

\* an int division: by zero it is undefined, and the builds either trap
\* (x86, SIGFPE) or give 0 (AArch64 sdiv)
DivisionOutcomes(divisor) ==
    IF divisor # 0 THEN {"quotient"} ELSE {"SIGFPE", "zero"}
quotient_of(x, divisor, o) == IF divisor # 0 THEN x \div divisor ELSE 0

Inferred(throws, number_coarse, fine_per_coarse, printed) ==
    [throws |-> throws, ret |-> <<number_coarse, fine_per_coarse>>, printed |-> printed]

\* one fallback block: the result it returns, "next" when its test fails
rounding_from(common_channelization, number_fine_channels, o, label) ==
    LET number_coarse == number_fine_channels \div common_channelization
        remainder_per_coarse ==
            quotient_of(number_fine_channels % common_channelization, number_coarse, o)
        fine_per_coarse == common_channelization + remainder_per_coarse
    IN  IF o = "SIGFPE"
        THEN Inferred("SIGFPE", 0, 0, <<>>)
        ELSE IF fine_per_coarse * number_coarse = number_fine_channels
        THEN Inferred("none", number_coarse, fine_per_coarse, <<label>>)
        ELSE Inferred("next", 0, 0, <<>>)

\* infer_number_coarse_channels; o1 and o2 are the outcomes of the divisions
\* of the two fallback blocks
infer_number_coarse_channels(number_fine_channels, foff, tsamp, o1, o2) ==
    LET matching == {k \in DOMAIN known_channelizations :
                       matches_channelization(known_channelizations[k],
                                              number_fine_channels, foff, tsamp)}
        first == CHOOSE k \in matching : \A other \in matching : k <= other
        from_2_18 == rounding_from(262144, number_fine_channels, o1, "WARN: Rounding from 2**18")
        from_1M == rounding_from(1000000, number_fine_channels, o2, "WARN: Rounding from 1M")
    IN  IF matching # {}
        THEN Inferred("none",
                      number_fine_channels \div known_channelizations[first][1],
                      known_channelizations[first][1], <<>>)
        ELSE IF from_2_18.throws # "next" THEN from_2_18
        ELSE IF from_1M.throws # "next" THEN from_1M
        ELSE Inferred("none", 1, number_fine_channels,
                      <<"WARN: working from 1 coarse channel">>)

\* the numbers of fine channels, frequency and time resolutions of the calls
FineChannelCounts ==
    {1, 4, 8, 64, 1024, 2048, 262144, 262145, 524288, 524290, 786433,
     1000000, 1033216, 1048576, 2000000, 2066432, 3000001}
Foffs == {-284, 284, 288, 293, 279, 100, -36621000, 286000}
Tsamps == {1798000000, 1740000000, 1825000000, 34953, 106000000, 100000000}

no_inference == [called |-> FALSE, throws |-> "none", ret |-> <<0, 0>>, printed |-> <<>>,
                 table |-> FALSE]

InInit ==
    /\ in_input \in [number_fine_channels : FineChannelCounts, foff : Foffs, tsamp : Tsamps]
    /\ in_ret = no_inference

\* infer_number_coarse_channels is not being called
InIdle ==
    /\ in_input = [number_fine_channels |-> 0, foff |-> 0, tsamp |-> 0]
    /\ in_ret = no_inference

\* infer_number_coarse_channels(number_fine_channels, foff, tsamp)
InferNumberCoarseChannels ==
    /\ UNCHANGED notIn
    /\ in_input.number_fine_channels > 0
    /\ ~in_ret.called
    /\ LET n == in_input.number_fine_channels
       IN  \E o1 \in DivisionOutcomes(n \div 262144), o2 \in DivisionOutcomes(n \div 1000000) :
              LET r == infer_number_coarse_channels(n, in_input.foff, in_input.tsamp, o1, o2)
              IN  in_ret' = [called |-> TRUE, throws |-> r.throws, ret |-> r.ret,
                             printed |-> r.printed,
                             table |-> \E k \in DOMAIN known_channelizations :
                                          matches_channelization(known_channelizations[k],
                                                                 n, in_input.foff, in_input.tsamp)]
    /\ UNCHANGED in_input

InNext == InferNumberCoarseChannels

-----------------------------------------------------------------------------
(* flag_filter_rolloff (filter_rolloff.cpp)                                 *)
(*                                                                          *)
(* A mask is a function from 1 .. time steps to functions from              *)
(* 0 .. nchans - 1 to 8-bit values.  rolloff_width is held in percent.      *)

\* flag_values::filter_rolloff
filter_rolloff == 1

MaxTimeSteps == 2
RolloffChannels == {1, 2, 3, 4, 5, 10}
RolloffWidths == {0, 20, 25, 50}
\* unflagged, filter_rolloff, sigma_clip and every bit set
MaskValues == {0, 1, 32, 255}

\* std::round(nchans * rolloff_width), halves away from zero
one_sided_channels_of(nchans, width) == (2 * nchans * width + 100) \div 200

\* the frequency indices of bland::slice(a, {1, start, end}): a negative
\* bound counts from the end of the axis, and the end is not included
slice_indices(nchans, start, end) ==
    LET first == IF start < 0 THEN nchans + start ELSE start
        last == IF end < 0 THEN nchans + end ELSE end
    IN  {f \in 0..(nchans - 1) : first <= f /\ f < last}

\* slice = slice + value, on uint8
add_on_slice(flags, nchans, start, end, value) ==
    [t \in DOMAIN flags |->
        [f \in 0..(nchans - 1) |->
            IF f \in slice_indices(nchans, start, end)
            THEN (flags[t][f] + value) % 256
            ELSE flags[t][f]]]

\* flag_filter_rolloff(cc_data, rolloff_width): the mask of the result
flag_filter_rolloff(rfi_flags, nchans, rolloff_width) ==
    LET one_sided_channels == one_sided_channels_of(nchans, rolloff_width)
        left == add_on_slice(rfi_flags, nchans, 0, one_sided_channels, filter_rolloff)
    IN  add_on_slice(left, nchans, -one_sided_channels, nchans, filter_rolloff)

FrInit ==
    /\ \E nchans \in RolloffChannels, tsteps \in 1..MaxTimeSteps :
          \E rows \in [1..tsteps -> MaskValues], marked \in 0..(nchans - 1) :
             fr_mask = [t \in 1..tsteps |->
                          [f \in 0..(nchans - 1) |->
                              IF f = marked /\ t = 1 THEN 0 ELSE rows[t]]]
    /\ fr_width \in RolloffWidths
    /\ fr_ret = [called |-> FALSE, mask |-> <<>>]

\* flag_filter_rolloff is not being called
FrIdle ==
    /\ fr_mask = <<>>
    /\ fr_width = 0
    /\ fr_ret = [called |-> FALSE, mask |-> <<>>]

\* the number of frequency channels of the mask
fr_nchans == Cardinality(DOMAIN fr_mask[1])

\* flag_filter_rolloff(cc_data, rolloff_width)
FlagFilterRolloff ==
    /\ UNCHANGED notFr
    /\ fr_mask # <<>>
    /\ ~fr_ret.called
    /\ fr_ret' = [called |-> TRUE,
                  mask |-> flag_filter_rolloff(fr_mask, fr_nchans, fr_width)]
    /\ UNCHANGED <<fr_mask, fr_width>>

FrNext == FlagFilterRolloff

-----------------------------------------------------------------------------
(* The specifications *)

\* event_search over every cadence of at most MaxHits hits
Init == EsInit /\ FhIdle /\ CdIdle /\ HsIdle /\ CcIdle /\ CacheIdle /\ ThIdle /\ ScIdle /\ VcIdle /\ DmIdle /\ InIdle /\ FrIdle
Next == EsNext
Spec == Init /\ [][Next]_vars

\* event_search over every cadence of at most MaxTimedHits hits whose scans
\* differ in start time and in duration
InitTimed == EsInitTimed /\ FhIdle /\ CdIdle /\ HsIdle /\ CcIdle /\ CacheIdle /\ ThIdle /\ ScIdle /\ VcIdle /\ DmIdle /\ InIdle /\ FrIdle
NextTimed == EsNext
SpecTimed == InitTimed /\ [][NextTimed]_vars

\* filter_hits, twice, over every list of at most MaxFilterHits hits
InitFilter == FhInit /\ EsIdle /\ CdIdle /\ HsIdle /\ CcIdle /\ CacheIdle /\ ThIdle /\ ScIdle /\ VcIdle /\ DmIdle /\ InIdle /\ FrIdle
NextFilter == FhNext
SpecFilter == InitFilter /\ [][NextFilter]_vars

\* filter_hits over lists of at most MaxWideHits hits of many channels
InitFilterWide == FhInitWide /\ EsIdle /\ CdIdle /\ HsIdle /\ CcIdle /\ CacheIdle /\ ThIdle /\ ScIdle /\ VcIdle /\ DmIdle /\ InIdle /\ FrIdle
NextFilterWide == FhNext
SpecFilterWide == InitFilterWide /\ [][NextFilterWide]_vars

\* compute_drifts over every call with bounds within MaxRate
InitDrifts == CdInit /\ EsIdle /\ FhIdle /\ HsIdle /\ CcIdle /\ CacheIdle /\ ThIdle /\ ScIdle /\ VcIdle /\ DmIdle /\ InIdle /\ FrIdle
NextDrifts == CdNext
SpecDrifts == InitDrifts /\ [][NextDrifts]_vars

\* hit_search over every list of at most MaxProtohits protohits
InitHitSearch == HsInit /\ EsIdle /\ FhIdle /\ CdIdle /\ CcIdle /\ CacheIdle /\ ThIdle /\ ScIdle /\ VcIdle /\ DmIdle /\ InIdle /\ FrIdle
NextHitSearch == HsNext
SpecHitSearch == InitHitSearch /\ [][NextHitSearch]_vars

\* one coarse channel: a constructor, then at most MaxChannelCalls member calls
InitChannel == CcInit /\ EsIdle /\ FhIdle /\ CdIdle /\ HsIdle /\ CacheIdle /\ ThIdle /\ ScIdle /\ VcIdle /\ DmIdle /\ InIdle /\ FrIdle
NextChannel == CcNext
SpecChannel == InitChannel /\ [][NextChannel]_vars

\* a coarse channel and its copies: at most MaxCacheCalls calls on the caches
InitCache == CacheInit /\ EsIdle /\ FhIdle /\ CdIdle /\ HsIdle /\ CcIdle /\ ThIdle /\ ScIdle /\ VcIdle /\ DmIdle /\ InIdle /\ FrIdle
NextCache == CacheNext
SpecCache == InitCache /\ [][NextCache]_vars

\* MaxThreads threads in hits() on one shared variant
InitThreads ==
    ThInit /\ EsIdle /\ FhIdle /\ CdIdle /\ HsIdle /\ CcIdle /\ CacheIdle /\ ScIdle /\ VcIdle /\ DmIdle /\ InIdle /\ FrIdle
NextThreads == ThNext
SpecThreads == InitThreads /\ [][NextThreads]_vars

\* a scan built over a data source, its pipeline, and up to MaxScanCalls calls
InitScan ==
    ScInit /\ EsIdle /\ FhIdle /\ CdIdle /\ HsIdle /\ CcIdle /\ CacheIdle /\ ThIdle /\ VcIdle /\ DmIdle /\ InIdle /\ FrIdle
NextScan == ScNext
SpecScan == InitScan /\ [][NextScan]_vars

\* the same scans with peak_coarse_channel among the calls
NextScanWithPeak == ScNextWithPeak
SpecScanWithPeak == InitScan /\ [][NextScanWithPeak]_vars

\* a scan built from a map of at most MaxMapChannels channels with hits set
InitScanFromMap ==
    ScInitFromMap /\ EsIdle /\ FhIdle /\ CdIdle /\ HsIdle /\ CcIdle /\ CacheIdle /\ ThIdle /\ VcIdle /\ DmIdle /\ InIdle /\ FrIdle
NextScanFromMap == ScNextFromMap
SpecScanFromMap == InitScanFromMap /\ [][NextScanFromMap]_vars

\* the consistency checks over every cadence of at most two targets of at
\* most MaxTargetScans scans
InitConsistency ==
    VcInit /\ EsIdle /\ FhIdle /\ CdIdle /\ HsIdle /\ CcIdle /\ CacheIdle /\ ThIdle /\ ScIdle /\ DmIdle /\ InIdle /\ FrIdle
NextConsistency == VcNext
SpecConsistency == InitConsistency /\ [][NextConsistency]_vars

\* distance_func over every pair of hits with drift rates within MaxDrift
InitDistance ==
    DmInit /\ EsIdle /\ FhIdle /\ CdIdle /\ HsIdle /\ CcIdle /\ CacheIdle /\ ThIdle /\ ScIdle /\ VcIdle /\ InIdle /\ FrIdle
NextDistance == DmNext
SpecDistance == InitDistance /\ [][NextDistance]_vars

\* infer_number_coarse_channels on every input of FineChannelCounts, Foffs
\* and Tsamps
InitInfer ==
    InInit /\ EsIdle /\ FhIdle /\ CdIdle /\ HsIdle /\ CcIdle /\ CacheIdle /\ ThIdle /\ ScIdle /\ VcIdle /\ DmIdle /\ FrIdle
NextInfer == InNext
SpecInfer == InitInfer /\ [][NextInfer]_vars

\* flag_filter_rolloff on masks of RolloffChannels channels and at most
\* MaxTimeSteps time steps
InitRolloff ==
    FrInit /\ EsIdle /\ FhIdle /\ CdIdle /\ HsIdle /\ CcIdle /\ CacheIdle /\ ThIdle /\ ScIdle /\ VcIdle /\ DmIdle /\ InIdle
NextRolloff == FrNext
SpecRolloff == InitRolloff /\ [][NextRolloff]_vars

-----------------------------------------------------------------------------
(* Properties of event_search *)

\* the threshold 50 of the matching rule, in model units
Fifty == 50 * DistUnits

SetMin(S) == CHOOSE x \in S : \A y \in S : x <= y

\* s without its element at position i
WithoutPos(s, i) == SubSeq(s, 1, i - 1) \o SubSeq(s, i + 1, Len(s))

\* the smallest distance d(e, h) over the hits e of an event
MinDistToEvent(event_hits, h) ==
    SetMin({distance_func(event_hits[k].hit, h) : k \in 1..Len(event_hits)})

\* the sum over the hits e of an event of d(h, e)
SumDistToEvent(h, event_hits) ==
    SeqSum([k \in 1..Len(event_hits) |-> distance_func(h, event_hits[k].hit)])

\* some hit h of some scan of some target other than the primary one has
\* (sum of d(h, e)) / |hits| < 50
SeenInOff(event_hits) ==
    \E t \in (1..Len(cadence)) \ {1} :
        \E s \in 1..Len(cadence[t]) :
            \E i \in 1..Len(cadence[t][s].hits) :
                SumDistToEvent(cadence[t][s].hits[i], event_hits)
                    < Fifty * Len(event_hits)

\* a step that ends the evaluation of a candidate; one that extends it by a scan
FinishStep == pc = "match" /\ pc' = "seed"
MatchStep == pc = "match" /\ matching_scan_index' = matching_scan_index + 1

\* C1: a candidate is emitted if and only if, once every later ON scan has
\* been processed, it has more than one hit and was seen in no OFF scan;
\* nothing else is ever added to the result, so every returned event has
\* more than one hit and was seen in no OFF scan.
C1_EmitStep ==
    /\ FinishStep =>
          /\ matching_scan_index > Len(cadence[1])
          /\ IF Len(candidate_event.hits) > 1 /\ ~SeenInOff(candidate_event.hits)
             THEN /\ Len(detected_events') = Len(detected_events) + 1
                  /\ SubSeq(detected_events', 1, Len(detected_events)) = detected_events
                  /\ detected_events'[Len(detected_events')].hits = candidate_event.hits
             ELSE detected_events' = detected_events
    /\ ~FinishStep => detected_events' = detected_events
C1_EmittedIffPersistentAndNotInOff ==
    /\ [][C1_EmitStep]_vars
    /\ [](\A e \in 1..Len(detected_events) :
              /\ Len(detected_events[e].hits) > 1
              /\ ~SeenInOff(detected_events[e].hits))
C1_Witness ==
    /\ pc = "seed"
    /\ detected_events # <<>>
    /\ detected_events[Len(detected_events)].hits = candidate_event.hits

\* C2: across all returned events every hit of the ON target (a node of a
\* scan's hit list) appears at most once, as a seed or as a matched member.
C2_HitInAtMostOneEvent ==
    \A e1, e2 \in 1..Len(detected_events) :
        \A k1 \in 1..Len(detected_events[e1].hits) :
            \A k2 \in 1..Len(detected_events[e2].hits) :
                (detected_events[e1].hits[k1].src = detected_events[e2].hits[k2].src)
                    => (e1 = e2 /\ k1 = k2)
C2_Witness ==
    /\ pc = "done"
    /\ Len(detected_events) >= 2
    /\ Len(on_scan_hits[1]) >= 2

\* C3: extending a candidate seeded in scan k visits the later ON scans in
\* increasing order; in each, the available hit with the smallest distance
\* to any hit of the event joins the event and leaves the scan's available
\* hits exactly when that distance is < 50; otherwise both stay as they are.
C3_MatchAction ==
    /\ (pc = "seed" /\ pc' = "match") =>
          /\ matching_scan_index' = on_scan_index + 1
          /\ candidate_event'.hits = <<on_scan_hits[on_scan_index][seed_pos]>>
          /\ on_scan_hits' = on_scan_hits
    /\ MatchStep =>
          LET j == matching_scan_index
              avail == on_scan_hits[j]
              D(i) == MinDistToEvent(candidate_event.hits, avail[i].hit)
          IN  /\ \A k \in 1..Len(candidate_event.hits) :
                    candidate_event.hits[k].src[1] < j
              /\ IF \E i \in 1..Len(avail) : D(i) < Fifty
                 THEN \E i \in 1..Len(avail) :
                        /\ \A i2 \in 1..Len(avail) : D(i) <= D(i2)
                        /\ candidate_event'.hits = Append(candidate_event.hits, avail[i])
                        /\ on_scan_hits' = [on_scan_hits EXCEPT ![j] = WithoutPos(avail, i)]
                 ELSE /\ candidate_event' = candidate_event
                      /\ on_scan_hits' = on_scan_hits
C3_ClosestHitJoinsIffBelow50 == [][C3_MatchAction]_vars
C3_Witness ==
    /\ pc = "match"
    /\ matching_scan_index > Len(cadence[1])
    /\ Len(candidate_event.hits) = 2
    /\ candidate_event.hits[1].src[1] = 1
    /\ candidate_event.hits[2].src[1] = 2
    /\ on_scan_hits[3] # <<>>

\* C4: a candidate is marked seen in OFF exactly when some hit of some scan
\* of a target other than the primary one is within an average distance of
\* 50 of the event's hits, and a candidate so marked is not emitted.
C4_SeenInOffIffCloseOffHit ==
    (pc = "seed" /\ candidate_event # NoEvent) =>
        /\ (times_event_in_off > 0) <=> SeenInOff(candidate_event.hits)
        /\ SeenInOff(candidate_event.hits) =>
              \A e \in 1..Len(detected_events) :
                  detected_events[e].hits # candidate_event.hits
C4_Witness ==
    /\ pc = "seed"
    /\ Len(candidate_event.hits) > 1
    /\ times_event_in_off = 1
    /\ cadence[2][1].hits = <<>>

\* C5: when two available hits of a scan tie on the minimum distance to the
\* candidate, the one with the smaller start_freq_index, then the smaller
\* rate_index, is chosen, whatever the order of the scan's hit list.
C5_MatchAction ==
    (MatchStep /\ Len(candidate_event'.hits) = Len(candidate_event.hits) + 1) =>
        LET avail == on_scan_hits[matching_scan_index]
            D(h) == MinDistToEvent(candidate_event.hits, h)
            chosen == candidate_event'.hits[Len(candidate_event'.hits)].hit
        IN  \A i \in 1..Len(avail) :
                (D(avail[i].hit) = D(chosen)) =>
                    \/ chosen.start_freq_index < avail[i].hit.start_freq_index
                    \/ /\ chosen.start_freq_index = avail[i].hit.start_freq_index
                       /\ chosen.rate_index <= avail[i].hit.rate_index
C5_TieBrokenByIndex == [][C5_MatchAction]_vars

-----------------------------------------------------------------------------
(* filter_hits: the rules as stated, evaluated on the hits as passed in *)

\* the count a hit carries for a flag; a count it does not carry reads as 0
Tally(h, k) == IF k \in DOMAIN h.rfi_counts THEN h.rfi_counts[k] ELSE 0

\* c < N * p and c > N * p for a fraction p = num/den (+ less than one ulp)
BelowFraction(c, N, p) == c * p.den < N * p.num + p.excess
AboveFraction(c, N, p) == c * p.den >= N * p.num + 1

ZeroDriftRule(h, o) ==
    o.filter_zero_drift /\ Abs(h.drift_rate_Hz_per_sec) < zero_drift_eps
SigmaclipRule(h, o) ==
    o.filter_sigmaclip
    /\ BelowFraction(Tally(h, "sigma_clip"), Abs(h.integrated_channels),
                     o.minimum_percent_sigmaclip)
HighSkRule(h, o) ==
    o.filter_high_sk
    /\ BelowFraction(Tally(h, "high_spectral_kurtosis"), Abs(h.integrated_channels),
                     o.minimum_percent_high_sk)
LowSkRule(h, o) ==
    o.filter_low_sk
    /\ AboveFraction(Tally(h, "low_spectral_kurtosis"), Abs(h.integrated_channels),
                     o.maximum_percent_low_sk)
SomeRuleHolds(h, o) ==
    ZeroDriftRule(h, o) \/ SigmaclipRule(h, o) \/ HighSkRule(h, o) \/ LowSkRule(h, o)

\* the positions of a list whose hits no enabled rule rejects, ascending
PositionsKept(hits, o) ==
    SelectSeq([i \in 1..Len(hits) |-> i], LAMBDA i : ~SomeRuleHolds(hits[i], o))

\* b is the hit a: every field the same, every count read the same
IsRetained(a, b) ==
    /\ [a EXCEPT !.rfi_counts = EmptyRfi] = [b EXCEPT !.rfi_counts = EmptyRfi]
    /\ \A k \in FlagKeys : Tally(a, k) = Tally(b, k)

C7_FilterIsFixedPointOnItsOutput ==
    fh_calls = 2 =>
        /\ Len(fh_hits) = Len(fh_arg)
        /\ \A i \in 1..Len(fh_hits) : HitEq(fh_hits[i], fh_arg[i])

\* a second call on a list from which the first call removed a hit, and in
\* which it retained a hit whose rfi_counts it extended with an absent key
C7_Witness ==
    /\ fh_calls = 2
    /\ Len(fh_input) = 2
    /\ Len(fh_hits) = 1
    /\ \E i \in 1..2 :
          /\ DOMAIN fh_input[i].rfi_counts = {"sigma_clip"}
          /\ IsRetained(fh_input[i], fh_hits[1])
          /\ DOMAIN fh_hits[1].rfi_counts # {"sigma_clip"}

\* the hit of a constant tone in an unflagged channel
IsUnflaggedTone(h) ==
    /\ h.drift_rate_Hz_per_sec = 0
    /\ h.integrated_channels = 16
    /\ \A k \in FlagKeys : Tally(h, k) = 0

\* C8: the single zero-drift hit of a constant tone in an unflagged channel
\* (drift rate 0, every rfi count 0, integrated_channels 16) is rejected with
\* filter_zero_drift = true and retained with filter_zero_drift = false, the
\* other filter_options fields at their declared defaults.
C8_ToneFollowsZeroDriftSwitch ==
    ( /\ fh_calls = 1
      /\ Len(fh_arg) = 1
      /\ IsUnflaggedTone(fh_arg[1])
      /\ [fh_options EXCEPT !.filter_zero_drift = TRUE] = default_filter_options )
    => IF fh_options.filter_zero_drift THEN fh_hits = <<>> ELSE Len(fh_hits) = 1

-----------------------------------------------------------------------------
(* compute_drifts *)

\* fractions compared by cross-multiplication (denominators positive)
FracLeq(x, y) == x.num * y.den <= y.num * x.den

\* n is p / q rounded to the nearest integer, halves away from zero
IsRoundOf(n, p, q) ==
    /\ 2 * Abs(n * q - p) <= Abs(q)
    /\ 2 * Abs(n * q - p) = Abs(q) => Abs(n * q) > Abs(p)

\* C9: in every array compute_drifts returns, the rate in Hz/s never
\* decreases with the index, and each channel span is
\* round(rate * (time_steps - 1) * tsamp / (foff * 1e6)).
C9_RatesNonDecreasingSpansRounded ==
    cd_pc = "done" =>
        /\ \A i \in 1..Len(drift_rate_info) : \A j \in i..Len(drift_rate_info) :
              FracLeq(drift_rate_info[i].drift_rate_Hz_per_sec,
                      drift_rate_info[j].drift_rate_Hz_per_sec)
        /\ \A i \in 1..Len(drift_rate_info) :
              LET rate == drift_rate_info[i].drift_rate_Hz_per_sec
              IN  IsRoundOf(drift_rate_info[i].drift_channels_span,
                            rate.num * (cd_args.time_steps - 1) * cd_args.tsamp,
                            rate.den * cd_args.foff_Hz)

\* a returned array of at least three rates for a negative foff and a
\* negative resolution, rising from a negative to a positive rate, with a
\* non-zero span
C9_Witness ==
    /\ cd_pc = "done"
    /\ cd_args.foff_Hz < 0
    /\ cd_args.options.resolution < 0
    /\ Len(drift_rate_info) >= 3
    /\ drift_rate_info[1].drift_rate_Hz_per_sec.num < 0
    /\ drift_rate_info[Len(drift_rate_info)].drift_rate_Hz_per_sec.num > 0
    /\ drift_rate_info[1].drift_channels_span # 0

\* C10: compute_drifts returns one drift rate for every index >= 0 with
\* index * step <= |high - low| and for no other index, high and low the
\* bounds snapped to multiples of the unit drift and step = |resolution * unit
\* drift| (so the snapped high bound is in the grid whenever |high - low| is a
\* whole number of steps).
C10_GridReachesSnappedHigh ==
    (cd_pc = "done" /\ cd_args.options.resolution # 0) =>
        LET step == Abs(cd_args.options.resolution * unit_drift_resolution(cd_args))
            range == Abs(rounded_high_drift_Hz_sec(cd_args)
                         - rounded_low_drift_Hz_sec(cd_args))
        IN  \A i \in 0..Len(drift_rate_info) :
                (i < Len(drift_rate_info)) <=> (i * step <= range)

\* C11: every drift rate compute_drifts returns has a channel span with the
\* sign of its rate (rate > 0 gives span >= 0, rate < 0 gives span <= 0),
\* whatever the sign of foff.
C11_SpanHasSignOfRate ==
    cd_pc = "done" =>
        \A i \in 1..Len(drift_rate_info) :
            LET r == drift_rate_info[i]
            IN  /\ r.drift_rate_Hz_per_sec.num > 0 => r.drift_channels_span >= 0
                /\ r.drift_rate_Hz_per_sec.num < 0 => r.drift_channels_span <= 0

\* C11, as the code has it: the channel span has the sign of rate / foff, the
\* sign of the rate for foff > 0 and the opposite sign for foff < 0, and is 0
\* for a zero rate.
C11_SpanHasSignOfRateOverFoff ==
    cd_pc = "done" =>
        \A i \in 1..Len(drift_rate_info) :
            LET r == drift_rate_info[i]
                q == r.drift_rate_Hz_per_sec.num * cd_args.foff_Hz
            IN  /\ q > 0 => r.drift_channels_span >= 0
                /\ q < 0 => r.drift_channels_span <= 0
                /\ q = 0 => r.drift_channels_span = 0

\* a returned array for an inverted band with a positive rate of negative
\* span and a negative rate of positive span
C11_Witness ==
    /\ cd_pc = "done"
    /\ cd_args.foff_Hz < 0
    /\ \E i \in 1..Len(drift_rate_info) :
          /\ drift_rate_info[i].drift_rate_Hz_per_sec.num > 0
          /\ drift_rate_info[i].drift_channels_span < 0
    /\ \E i \in 1..Len(drift_rate_info) :
          /\ drift_rate_info[i].drift_rate_Hz_per_sec.num < 0
          /\ drift_rate_info[i].drift_channels_span > 0

-----------------------------------------------------------------------------
(* hit_search *)

\* C12: hit_search on a coarse channel returns exactly one hit per protohit,
\* in protohit order, with start_freq_index and rate_index those of index_max,
\* start_freq_MHz = fch1 + foff * index_center.frequency_channel,
\* power = max_integration - noise_floor, snr = power / desmeared_noise,
\* bandwidth = binwidth * |foff * 1e6|, duration_sec = tsamp * integration_steps
\* and integrated_channels = desmeared_bins[rate_index] * integration_steps.
C12_OneHitPerProtohit ==
    hs_pc = "done" =>
        /\ Len(hs_hits) = Len(protohits)
        /\ \A i \in 1..Len(protohits) :
              LET h == hs_hits[i]
                  c == protohits[i]
              IN  /\ h.start_freq_index = c.index_max.frequency_channel
                  /\ h.rate_index = c.index_max.drift_index
                  /\ h.start_freq_MHz
                       = hs_channel.fch1_Hz
                         + hs_channel.foff_Hz * c.index_center.frequency_channel
                  /\ h.power = c.max_integration - hs_channel.noise_floor
                  /\ h.snr.num * c.desmeared_noise = h.power * h.snr.den
                  /\ h.binwidth = c.binwidth
                  /\ h.bandwidth = h.binwidth * Abs(hs_channel.foff_Hz)
                  /\ h.duration_sec = hs_channel.tsamp * hs_channel.integration_steps
                  /\ h.integrated_channels
                       = hs_channel.drift_rate_info[h.rate_index + 1].desmeared_bins
                         * hs_channel.integration_steps

\* a search of an inverted band that returned two hits, one of them with its
\* centroid off its peak and one desmeared over more than one bin
C12_Witness ==
    /\ hs_pc = "done"
    /\ Len(hs_hits) = 2
    /\ hs_channel.foff_Hz < 0
    /\ \E i \in 1..2 :
          protohits[i].index_center.frequency_channel
              # protohits[i].index_max.frequency_channel
    /\ \E i \in 1..2 : hs_hits[i].integrated_channels > hs_channel.integration_steps

-----------------------------------------------------------------------------
(* coarse_channel: loaders and devices *)

\* C13: a coarse channel made from a (data_loader, mask_loader) pair is
\* populated lazily: constructing it invokes neither loader, the data loader
\* runs only on the first data() call and the mask loader only on the first
\* mask() call.
C13_LoadersRunOnFirstAccess ==
    cc_made = "lazy" =>
        /\ loader_calls.data = (IF accesses.data > 0 THEN 1 ELSE 0)
        /\ loader_calls.mask = (IF accesses.mask > 0 THEN 1 ELSE 0)

C18_Step ==
    /\ cc_ret'.op = "set_device" => (cc'._data = cc._data /\ cc'._mask = cc._mask)
    /\ cc_ret'.op = "data" =>
          (cc_ret'.value.device = cc'._device /\ cc_ret'.value = cc'._data)
    /\ cc_ret'.op = "mask" =>
          (cc_ret'.value.device = cc'._device /\ cc_ret'.value = cc'._mask)
    /\ cc_ret'.op = "push_device" =>
          (cc'._data.device = cc'._device /\ cc'._mask.device = cc'._device)

\* C18: set_device only records the target device and moves no tensor; the
\* tensors move at the next data() or mask() call or at push_device(), so
\* whatever calls came before, the tensor data() or mask() returns is on the
\* device configured at that time.
C18_TensorsFollowConfiguredDevice == [][C18_Step]_vars

\* data() has just returned a tensor it moved to the GPU configured by an
\* earlier set_device, while the mask is still on the CPU
C18_Witness ==
    /\ cc_ret.op = "data"
    /\ cc._device = "cuda:0"
    /\ cc_ret.value.device = "cuda:0"
    /\ cc._mask.device = "cpu"

-----------------------------------------------------------------------------
(* coarse_channel: caches *)

\* a call of hits() or integrated_drift_plane() on a channel whose pointer k
\* is set: a pending generator is invoked, for the only time, and replaced by
\* its result; a cached value is returned with no invocation
C14_CachedStep(k) ==
    IF heap[k].holds = "function"
    THEN /\ generator_calls[k] = 0
         /\ generator_calls' = [generator_calls EXCEPT ![k] = 1]
         /\ heap'[k].holds = "value"
         /\ heap'[k].value.made_by = k
         /\ cache_ret'.value = heap'[k].value
    ELSE /\ generator_calls' = generator_calls
         /\ heap'[k].holds = "value"
         /\ heap'[k].value.made_by = heap[k].value.made_by
         /\ cache_ret'.value = heap'[k].value

C14_Step ==
    /\ (cache_ret'.op = "hits" /\ cache_ret'.throws = "no")
          => C14_CachedStep(channels[cache_ret'.on]._hits)
    /\ (cache_ret'.op = "integrated_drift_plane" /\ cache_ret'.throws = "no")
          => C14_CachedStep(channels[cache_ret'.on]._integrated_drift_plane)
    /\ \A k \in 1..Len(generator_calls') : generator_calls'[k] <= 1

\* C14: after set_hits(generator) (set_integrated_drift_plane(generator)) the
\* first hits() (integrated_drift_plane()) call invokes the generator exactly
\* once and replaces it with the result; every later call, on that channel or
\* on a copy of it made after the generator was set, returns the cached value
\* and invokes nothing.
C14_GeneratorRunsOnceThenCached == [][C14_Step]_vars

\* hits() on a copy has just returned, without invoking anything, the list
\* that a generator set on the original computed for an earlier call
C14_Witness ==
    /\ cache_ret.op = "hits"
    /\ cache_ret.on = 2
    /\ cache_ret.invoked = 0
    /\ cache_ret.throws = "no"
    /\ channels[1]._hits = channels[2]._hits
    /\ cache_ret.value.made_by = channels[2]._hits
    /\ generator_calls[channels[2]._hits] = 1

\* C15: when threads call hits() concurrently on channels sharing one cache
\* that holds a pending generator, the swap of the generator for the result is
\* atomic: the callers serialize or both compute, but every call returns the
\* complete computed list, never a partial one.
C15_EveryCallReturnsCompleteList ==
    \A t \in Threads : th_pc[t] = "done" => th_ret[t] = "complete"

\* a step in which read_coarse_channel was called
ReadStep == sc_calls' = sc_calls + 1 /\ sc_ret'.op = "read_coarse_channel"

\* C16: every read_coarse_channel(i) that returns a channel has applied each
\* registered transform exactly once, in registration order, each stage to the
\* output of the one before, starting from the cached base channel; the base
\* channel in the cache stays untransformed, so the chain is applied afresh on
\* every call, on repeated reads and with transforms registered after an
\* earlier read.  A read that a transform ends by throwing ran the stages in
\* order up to that transform.
C16_Step ==
    ReadStep =>
        LET pipeline == sc_scan._coarse_channel_pipeline
            g == sc_ret'.index + sc_scan._coarse_channel_offset
        IN  /\ sc_scan'._coarse_channel_pipeline = pipeline
            /\ sc_ret'.throws = "none" =>
                  LET c == sc_ret'.ret[1]
                  IN  /\ c.stages = pipeline
                      /\ c._coarse_channel_number = g
                      /\ sc_scan'._coarse_channels[g].stages = <<>>
                      /\ sc_scan'._coarse_channels[g]._hits = <<>>
                      /\ has_hits(c) <=>
                            \E k \in DOMAIN pipeline : pipeline[k] = "hit_search"
                      /\ \A k \in DOMAIN pipeline :
                            /\ pipeline[k] = "hit_search"
                            /\ \A j \in (k + 1)..Len(pipeline) :
                                  pipeline[j] # "hit_search"
                            => /\ Len(c._hits[1]) = 1
                               /\ c._hits[1][1].found_after = SubSeq(pipeline, 1, k - 1)
                               /\ c._hits[1][1].filtered <=>
                                     \E j \in (k + 1)..Len(pipeline) :
                                         pipeline[j] = "filter_hits"
            /\ sc_ret'.throws = "invalid_argument" =>
                  \E k \in DOMAIN pipeline :
                      /\ pipeline[k] = "filter_hits"
                      /\ \A j \in 1..(k - 1) : pipeline[j] = "excise_dc"
C16_PipelineAppliedInOrderOnEveryRead == [][C16_Step]_vars

\* a repeated read of a cached channel returned it after two different stages,
\* at least one of them registered after the channel was first read
C16_Witness ==
    /\ sc_ret.op = "read_coarse_channel"
    /\ sc_ret.throws = "none"
    /\ sc_ret.was_cached
    /\ Len(sc_ret.ret[1].stages) = 2
    /\ sc_ret.ret[1].stages[1] # sc_ret.ret[1].stages[2]
    /\ sc_first_read[sc_ret.index] < 2
    /\ Len(sc_source.data_shape) = 3
    /\ sc_ret.index < sc_scan._num_coarse_channels

\* C17: read_coarse_channel(i) throws std::out_of_range for every i < 0 and
\* every i >= get_number_coarse_channels(), without reading from the data
\* source and without adding an entry to the channel cache.
C17_Step ==
    /\ ReadStep
    /\ Len(sc_source.data_shape) = 3
    /\ sc_ret'.index < 0 \/ sc_ret'.index >= sc_scan._num_coarse_channels
    => /\ sc_ret'.throws = "out_of_range"
       /\ sc_source' = sc_source
       /\ sc_scan' = sc_scan
C17_OutOfRangeIndexThrows == [][C17_Step]_vars

\* C19: reading hits() of a channel on which no detection was scheduled fails
\* with an error that reaches the caller: scan::hits() over a scan of at least
\* one channel whose pipeline sets no hits ends by throwing.
C19_Step ==
    /\ sc_calls' = sc_calls + 1
    /\ sc_ret'.op = "hits"
    /\ Len(sc_source.data_shape) = 3
    /\ sc_scan._num_coarse_channels >= 1
    /\ \A k \in DOMAIN sc_scan._coarse_channel_pipeline :
          sc_scan._coarse_channel_pipeline[k] # "hit_search"
    => sc_ret'.throws # "none"
C19_UnsetHitsErrorReachesCaller == [][C19_Step]_vars

\* C20: constructing a scan from a data source produces no scan when the data
\* shape is not 3-dimensional or when the explicit num_fine_channels_per_coarse
\* does not divide nchans.
C20_BadShapeOrChannelizationFails ==
    sc_made = "made" =>
        /\ Len(sc_source.data_shape) = 3
        /\ sc_scan._meta.nchans % sc_scan._fine_channels_per_coarse = 0

-----------------------------------------------------------------------------
(* C21: the consistency checks *)

\* the scans share fch1, foff and nchans
same_layout(scans) ==
    \A i, j \in DOMAIN scans :
        /\ scans[i].fch1 = scans[j].fch1
        /\ scans[i].foff = scans[j].foff
        /\ scans[i].nchans = scans[j].nchans

\* the scans of every target of a cadence, in order
RECURSIVE all_scans(_)
all_scans(observations) ==
    IF observations = <<>> THEN <<>>
    ELSE Head(observations) \o all_scans(Tail(observations))

\* the scans the last call was about
vc_subject ==
    IF vc_ret.on = 0 THEN all_scans(vc_cadence) ELSE vc_cadence[vc_ret.on]

\* C21: validate_scan_consistency of a target and of a cadence returns true
\* exactly when all contained scans share fch1, foff and nchans, and the
\* getters of a target or cadence raise an error only when its scans are
\* inconsistent.
\* Stated for targets and cadences that hold at least one scan.
C21_ValidTrueIffScansShareLayout ==
    vc_ret.op # "none" /\ vc_subject # <<>> =>
        /\ vc_ret.op = "validate_scan_consistency" =>
              (vc_ret.value <=> same_layout(vc_subject))
        /\ /\ vc_ret.op \in {"get_number_coarse_channels",
                             "get_coarse_channel_with_frequency"}
           /\ vc_ret.throws = "runtime_error"
           => ~same_layout(vc_subject)

-----------------------------------------------------------------------------
(* C22: the drift term of the distance *)

\* |drift_a - drift_b| and drift_a^2 + drift_b^2 of the pair
dm_difference == Abs(dm_a.drift_rate_Hz_per_sec - dm_b.drift_rate_Hz_per_sec)
dm_squares ==
    dm_a.drift_rate_Hz_per_sec * dm_a.drift_rate_Hz_per_sec
    + dm_b.drift_rate_Hz_per_sec * dm_b.drift_rate_Hz_per_sec

\* t is the quotient p / q cut to a whole number of 1/DistUnits
CutQuotient(t, p, q) == t * q <= p /\ p < (t + 1) * q

\* C22 as stated: the drift term is 10 * ((drift_a - drift_b)^2 /
\* (eps + drift_a^2 + drift_b^2))^2, ten times the square of the ratio between
\* the squared drift difference and the sum of the squared drifts.
C22_DriftTermSquaresTheSquaredDifference ==
    dm_ret.called =>
        IF dm_squares = 0 THEN dm_ret.drift_term = 0
        ELSE CutQuotient(dm_ret.drift_term,
                         10 * DistUnits * dm_difference * dm_difference
                            * dm_difference * dm_difference,
                         dm_squares * dm_squares)

\* C22 amended: the drift term is 10 * (|drift_a - drift_b| /
\* (eps + drift_a^2 + drift_b^2))^2, ten times the square of the ratio between
\* the absolute drift difference and the sum of the squared drifts.
C22_DriftTermSquaresTheNormalisedDifference ==
    dm_ret.called =>
        IF dm_squares = 0 THEN dm_ret.drift_term = 0
        ELSE CutQuotient(dm_ret.drift_term,
                         10 * DistUnits * dm_difference * dm_difference,
                         dm_squares * dm_squares)

\* the distance of two hits whose non-zero drift rates differ by 2 or more
C22_Witness ==
    /\ dm_ret.called
    /\ dm_difference >= 2
    /\ dm_a.drift_rate_Hz_per_sec # 0
    /\ dm_b.drift_rate_Hz_per_sec # 0
    /\ dm_ret.drift_term > 0
    /\ dm_ret.distance >= dm_ret.drift_term

-----------------------------------------------------------------------------
(* C23: the hits of a scan made from a map of channels *)

\* the lists of channels from .. number - 1 of a cache, one after the other
RECURSIVE lists_from(_, _, _)
lists_from(coarse_channels, from, number) ==
    IF from >= number THEN <<>>
    ELSE coarse_channels[from]._hits[1]
         \o lists_from(coarse_channels, from + 1, number)

\* C23: for a scan built from a map of channels 0..n-1 whose hits were each
\* assigned with set_hits, scan::hits() returns the concatenation of the
\* channels' lists in increasing channel index with every hit unchanged, its
\* length the sum of the channels' hit counts; and hits() of a channel returns
\* exactly the list set_hits was given.
C23_Step ==
    /\ sc_calls' = sc_calls + 1
    /\ sc_ret'.op = "hits"
    /\ sc_source = null_data_source
    /\ sc_scan._coarse_channel_pipeline = <<>>
    => LET number == sc_scan._num_coarse_channels
           coarse_channels == sc_scan._coarse_channels
       IN  /\ sc_ret'.throws = "none"
           /\ sc_ret'.printed = <<>>
           /\ sc_ret'.ret = lists_from(coarse_channels, 0, number)
           /\ Len(sc_ret'.ret) =
                 SeqSum([k \in 1..number |-> Len(coarse_channels[k - 1]._hits[1])])
           /\ \A g \in 0..(number - 1) :
                 /\ hits_of(coarse_channels[g]).throws = "none"
                 /\ \A k \in DOMAIN coarse_channels[g]._hits[1] :
                       hits_of(coarse_channels[g]).ret[k] = set_hit(g, k)
           /\ \A i, j \in DOMAIN sc_ret'.ret :
                 i < j => \/ sc_ret'.ret[i].channel < sc_ret'.ret[j].channel
                          \/ /\ sc_ret'.ret[i].channel = sc_ret'.ret[j].channel
                             /\ sc_ret'.ret[i].id < sc_ret'.ret[j].id
           /\ sc_scan' = sc_scan
C23_HitsAreTheChannelListsInOrder == [][C23_Step]_vars

\* hits() returned the hits of two channels that hold hits, the first
\* channel holding two
C23_Witness ==
    /\ sc_ret.op = "hits"
    /\ sc_source = null_data_source
    /\ sc_scan._coarse_channel_pipeline = <<>>
    /\ sc_scan._num_coarse_channels = 2
    /\ Len(sc_ret.ret) = 3
    /\ sc_ret.ret[1].channel = 0
    /\ sc_ret.ret[2].channel = 0
    /\ sc_ret.ret[3].channel = 1

-----------------------------------------------------------------------------
(* C24: infer_number_coarse_channels *)

\* C24: infer_number_coarse_channels terminates normally for every
\* number_fine_channels >= 1 and returns (n_coarse, fine_per_coarse) with
\* n_coarse >= 1 and n_coarse * fine_per_coarse = number_fine_channels, the
\* final fallback being one coarse channel holding all fine channels, in
\* particular for inputs below 2^18 that match no table entry.
C24_InferenceTerminatesWithExactSplit ==
    in_ret.called
    => /\ in_ret.throws = "none"
       /\ in_ret.ret[1] >= 1
       /\ in_ret.ret[1] * in_ret.ret[2] = in_input.number_fine_channels
       /\ (~in_ret.table /\ in_input.number_fine_channels < 262144)
             => in_ret.ret = <<1, in_input.number_fine_channels>>

-----------------------------------------------------------------------------
(* C25: flag_filter_rolloff *)

\* a mask value with the filter_rolloff bit set and every other bit kept
with_rolloff_bit(value) == IF value % 2 = 1 THEN value ELSE value + filter_rolloff

\* C25: flag_filter_rolloff(channel, w) sets the filter_rolloff flag on exactly
\* the k = round(nchans * w) lowest and the k highest frequency indices of
\* every time step (k = 0 flags nothing), as a single flag bit even where the
\* two edge regions meet, and leaves every other mask value and every other
\* flag bit unchanged.
C25_RolloffFlagsExactlyTheEdges ==
    fr_ret.called
    => LET k == one_sided_channels_of(fr_nchans, fr_width)
       IN  \A t \in DOMAIN fr_mask : \A f \in 0..(fr_nchans - 1) :
              fr_ret.mask[t][f] =
                 IF f < k \/ f >= fr_nchans - k
                 THEN with_rolloff_bit(fr_mask[t][f])
                 ELSE fr_mask[t][f]

\* the same on unflagged masks with edge regions that flag something and do
\* not overlap
C25_OnCleanMaskWithSeparateEdges ==
    LET k == one_sided_channels_of(fr_nchans, fr_width)
    IN  /\ fr_ret.called
        /\ k > 0
        /\ 2 * k <= fr_nchans
        /\ \A t \in DOMAIN fr_mask : \A f \in 0..(fr_nchans - 1) : fr_mask[t][f] % 2 = 0
        => \A t \in DOMAIN fr_mask : \A f \in 0..(fr_nchans - 1) :
              fr_ret.mask[t][f] =
                 IF f < k \/ f >= fr_nchans - k
                 THEN with_rolloff_bit(fr_mask[t][f])
                 ELSE fr_mask[t][f]

-----------------------------------------------------------------------------
(* C26: the hits of a candidate event *)

\* the hits of ev are one per ON scan, from the scan of the seed on in
\* increasing scan order
one_hit_per_later_scan(ev) ==
    /\ \A i \in DOMAIN ev.hits :
          /\ ev.hits[i].src[1] \in 1..Len(on_target_obs)
          /\ ev.hits[i].hit.start_time_sec = on_target_obs[ev.hits[i].src[1]].tstart_sec
    /\ \A i, j \in DOMAIN ev.hits : i < j => ev.hits[i].src[1] < ev.hits[j].src[1]
    /\ ev.hits # <<>> => Len(ev.hits) <= Len(on_target_obs) - (ev.hits[1].src[1] - 1)

\* C26: every candidate event built by event_search holds at most one hit of
\* each ON scan: its first hit is the seed from scan k (counted from 0) and
\* the others come from strictly later ON scans in increasing scan order, so
\* it has at most (number of ON scans - k) hits.
C26_OneHitPerScanInScanOrder ==
    /\ one_hit_per_later_scan(candidate_event)
    /\ pc = "match" => /\ candidate_event.hits[1].src[1] = on_scan_index
                       /\ \A i \in DOMAIN candidate_event.hits :
                             candidate_event.hits[i].src[1] < matching_scan_index
    /\ \A e \in DOMAIN detected_events : one_hit_per_later_scan(detected_events[e])

\* a returned event holds a hit of every ON scan although the last scan held
\* two hits
C26_Witness ==
    /\ pc = "done"
    /\ Len(cadence[on_target_index][NumOnScans].hits) = 2
    /\ \E e \in DOMAIN detected_events : Len(detected_events[e].hits) = NumOnScans

-----------------------------------------------------------------------------
(* C27: matched hits stay removed *)

\* the list nodes of a vector of lists
available_nodes(lists) ==
    UNION {{lists[s][i] : i \in DOMAIN lists[s]} : s \in DOMAIN lists}

\* the hits that were matched into some candidate since the search began
matched_so_far(lists, cad) == available_nodes(InitialOnScanHits(cad)) \ available_nodes(lists)

\* C27: a hit that was matched into a candidate event stays removed from its
\* scan's available hits even when that candidate is then discarded because
\* it was seen in OFF: within the same search such a hit is never used as a
\* seed and never joins any other event, whereas the hits of a scan that were
\* compared but not matched remain available.
C27_Step ==
    LET before == matched_so_far(on_scan_hits, cadence)
        after == matched_so_far(on_scan_hits', cadence')
        joined == {candidate_event'.hits[i] :
                     i \in (DOMAIN candidate_event'.hits) \ (DOMAIN candidate_event.hits)}
    IN  /\ before \subseteq after
        /\ (pc = "seed" /\ pc' = "match")
              => /\ candidate_event'.hits[1] \notin before
                 /\ after = before
        /\ (pc = "match" /\ pc' = "match")
              => /\ joined \cap before = {}
                 /\ after = before \cup joined
                 /\ \A s \in DOMAIN on_scan_hits :
                       s # matching_scan_index => on_scan_hits'[s] = on_scan_hits[s]
        /\ (pc = "match" /\ pc' = "seed")
              => /\ on_scan_hits' = on_scan_hits
                 /\ \A i \in 2..Len(candidate_event.hits) : candidate_event.hits[i] \in after
        /\ \A e \in DOMAIN detected_events' :
              \A i \in 2..Len(detected_events'[e].hits) : detected_events'[e].hits[i] \in after
C27_MatchedHitsStayRemoved == [][C27_Step]_vars

\* a candidate of two hits was discarded for being seen in OFF; the hit it
\* took is gone from its scan and the other hit of that scan is available
C27_Witness ==
    /\ pc = "seed"
    /\ Len(candidate_event.hits) = 2
    /\ times_event_in_off > 0
    /\ detected_events = <<>>
    /\ LET taken == candidate_event.hits[2]
       IN  /\ taken \notin available_nodes(on_scan_hits)
           /\ Len(on_scan_hits[taken.src[1]]) = 1
           /\ Len(cadence[on_target_index][taken.src[1]].hits) = 2

-----------------------------------------------------------------------------
(* C28: the memoised distance *)

\* the hits of a scan
hits_in(one_scan) == {one_scan.hits[k] : k \in DOMAIN one_scan.hits}

\* the pairs of arguments the search calls the distance with: a hit of an ON
\* scan with a hit of a later ON scan, and a hit of an OFF scan with a hit
\* of an ON scan
search_queries(cad) ==
    LET on == cad[on_target_index]
        off_hits == all_off_hits(extract_off_scans(cad, on_target_index))
        later == {ij \in (DOMAIN on) \X (DOMAIN on) : ij[1] < ij[2]}
    IN  (UNION {hits_in(on[ij[1]]) \X hits_in(on[ij[2]]) : ij \in later})
        \cup (UNION {{off_hits[k]} \X hits_in(on[j]) :
                        k \in DOMAIN off_hits, j \in DOMAIN on})

\* every entry of the cache holds, for each call it answers, the distance
\* distance_func gives for the arguments of that call in their order
cache_is_transparent(cache, cad) ==
    \A e \in cache : \A q \in search_queries(cad) :
        SameCacheKey(e, q[1], q[2]) => e.d = distance_func(q[1], q[2])

\* find_best_matching_hit computed with distance_func alone: the lowest
\* distance of a hit to the hits of the event
plain_lowest(ev, h) ==
    LET ds == {distance_func(ev.hits[k].hit, h) : k \in DOMAIN ev.hits}
    IN  CHOOSE d \in ds : \A other \in ds : d <= other

\* the position of the first hit of the list closest to the event, 0 in an
\* empty list
plain_best(ev, hits_to_check) ==
    IF hits_to_check = <<>> THEN 0
    ELSE CHOOSE i \in DOMAIN hits_to_check :
            \A j \in DOMAIN hits_to_check :
               \/ plain_lowest(ev, hits_to_check[i].hit) < plain_lowest(ev, hits_to_check[j].hit)
               \/ /\ plain_lowest(ev, hits_to_check[i].hit) = plain_lowest(ev, hits_to_check[j].hit)
                  /\ i <= j

\* count_event_in_off_scans computed with distance_func alone
plain_times_in_off(ev, cad) ==
    LET off_hits == all_off_hits(extract_off_scans(cad, on_target_index))
    IN  Cardinality({k \in DOMAIN off_hits :
           SeqSum([j \in DOMAIN ev.hits |-> distance_func(off_hits[k], ev.hits[j].hit)])
              < match_threshold * DistUnits * Len(ev.hits)})

\* C28: the memoised distance of event_search, whose cache key takes (a, b)
\* and (b, a) for the same entry, is transparent: on every cadence whose scans
\* have pairwise distinct start times each value it returns is distance_func
\* of the same two arguments in the same order, and the search takes the
\* decisions, and so returns the events, it would take without the cache.
C28_Step ==
    /\ cache_is_transparent(distance_cache', cadence')
    /\ (pc = "match" /\ pc' = "match")
          => LET hits_to_check == on_scan_hits[matching_scan_index]
                 best == plain_best(candidate_event, hits_to_check)
             IN  IF /\ best # 0
                    /\ plain_lowest(candidate_event, hits_to_check[best].hit)
                          < match_threshold * DistUnits
                 THEN candidate_event'.hits =
                         Append(candidate_event.hits, hits_to_check[best])
                 ELSE candidate_event'.hits = candidate_event.hits
    /\ (pc = "match" /\ pc' = "seed")
          => times_event_in_off' = plain_times_in_off(candidate_event, cadence)
C28_CacheIsTransparent == [][C28_Step]_vars

\* the search is over; a scan held two equal hits, so that the second was
\* answered from the cache, and the distance is not symmetric on a pair the
\* cache holds
C28_Witness ==
    /\ pc = "done"
    /\ \E s \in DOMAIN on_target_obs :
          \E i, j \in DOMAIN on_target_obs[s].hits :
             /\ i < j
             /\ HitEq(on_target_obs[s].hits[i], on_target_obs[s].hits[j])
             /\ \E e \in distance_cache : HitEq(e.second, on_target_obs[s].hits[i])
    /\ \E e \in distance_cache : distance_func(e.second, e.first) # e.d

-----------------------------------------------------------------------------
(* C29: 8-bit flag counts against thresholds above 255 *)

\* |integrated_channels| * fraction exceeds limit, the fraction being the
\* float of the options
product_exceeds(h, fraction, limit) ==
    \/ Abs(h.integrated_channels) * fraction.num > limit * fraction.den
    \/ /\ fraction.excess = 1
       /\ Abs(h.integrated_channels) * fraction.num = limit * fraction.den

was_kept(h) == \E i \in DOMAIN fh_hits : fh_hits[i] = h

C29_WitnessKept ==
    /\ fh_calls = 1
    /\ fh_options.filter_sigmaclip
    /\ fh_options.minimum_percent_sigmaclip = float_quarter
    /\ Len(fh_arg) = 1
    /\ fh_arg[1].integrated_channels = 1020
    /\ fh_arg[1].rfi_counts["sigma_clip"] = 255
    /\ fh_hits = fh_arg

-----------------------------------------------------------------------------
(* C30: calls of the data source per coarse channel *)

\* the calls counted for the window of channel g
calls_at(counted, g) == IF g \in DOMAIN counted THEN counted[g] ELSE 0

\* the channels the data source was asked for
channels_read(src) == (DOMAIN src.reads.data_at) \cup (DOMAIN src.reads.mask_at)

\* C30: over any sequence of read_coarse_channel, peak_coarse_channel and
\* hits calls on one scan, read_data and read_mask are each invoked at most
\* once per coarse channel index, and peak_coarse_channel never invokes them.
C30_OriginalStep ==
    /\ \A g \in channels_read(sc_source') :
          /\ calls_at(sc_source'.reads.data_at, g) <= 1
          /\ calls_at(sc_source'.reads.mask_at, g) <= 1
    /\ (sc_calls' = sc_calls + 1 /\ sc_ret'.op = "peak_coarse_channel")
          => sc_source' = sc_source
C30_Step ==
    /\ channels_read(sc_source) \subseteq channels_read(sc_source')
    /\ \A g \in channels_read(sc_source') :
          LET data_before == calls_at(sc_source.reads.data_at, g)
              data_after == calls_at(sc_source'.reads.data_at, g)
              mask_before == calls_at(sc_source.reads.mask_at, g)
              mask_after == calls_at(sc_source'.reads.mask_at, g)
          IN  /\ g \in DOMAIN sc_scan._coarse_channels
                    => data_after = data_before /\ mask_after = mask_before
              /\ data_before <= data_after /\ data_after <= data_before + 1
              /\ mask_before <= mask_after /\ mask_after <= 1
              /\ mask_after <= data_after
              /\ mask_after > mask_before => g \in DOMAIN sc_scan'._coarse_channels
              /\ (data_after > data_before /\ g \notin DOMAIN sc_scan'._coarse_channels)
                    => sc_ret'.throws = "data_source_error"
    /\ (sc_calls' = sc_calls + 1 /\ sc_ret'.op = "peak_coarse_channel")
          => /\ sc_source' = sc_source
             /\ sc_scan' = sc_scan
             /\ (sc_ret'.throws = "none" /\ sc_ret'.ret = <<>>)
                   => sc_ret'.index \notin DOMAIN sc_scan._coarse_channels
====
